---- MODULE Spec2Model ----
(***************************************************************************)
(* Model of the thales agent execution core:                               *)
(*   - AgentOntology (agents/base/ontology/ontology.py)                    *)
(*   - Goal / Task records (goalsClasses.py, agents/ontology/tasks.py)     *)
(*   - BaseAgent.execute_goal / execute_task (agents/base/base.py)         *)
(*   - EnhancedMCPClient connect / disconnect / execute_tool / cleanup     *)
(*     (mcp/client/client.py) and MCPServerManager (mcpServerManager.py)   *)
(*                                                                         *)
(* Strings that the code inspects character by character (action names,    *)
(* operating constraints) are sequences of one-character strings.          *)
(* Timestamps are 0 (None) or an instant >= 1 read from datetime.now(); the  *)
(* agent model reads the same instant 1 everywhere, the Task model reads    *)
(* successive instants.  A duration is NoDuration (None) or a difference.   *)
(* Progress and feasibility are percentages (1.0 = 100).                   *)
(***************************************************************************)
EXTENDS Integers, Sequences, FiniteSets, TLC

\* ------------------------------------------------------------------ bounds
MaxCalls == 2
MaxTasks == 2
NumGoals == 2
MaxConnects == 2
MaxRetries == 3
MaxStarts == 3
MaxTime == 3

Goals == 1..NumGoals
\* execute_goal coroutines that may be in flight at once
Slots == {"s1", "s2"}
NoSlot == "none"
Insts == 1..MaxConnects

\* ----------------------------------------------------------- text helpers
Range(s) == {s[i] : i \in DOMAIN s}

LowerChar(c) ==
    CASE c = "D" -> "d"
      [] c = "E" -> "e"
      [] c = "L" -> "l"
      [] c = "T" -> "t"
      [] OTHER -> c

lower(s) == [i \in DOMAIN s |-> LowerChar(s[i])]

\* Python's `a in b` for strings: a occurs as a contiguous substring of b.
IsSubstring(a, b) ==
    \E off \in 0..(Len(b) - Len(a)) :
        \A i \in 1..Len(a) : b[off + i] = a[i]

\* ------------------------------------------------------- action names
ANALYZE_GOAL == <<"a","n","a","l","y","z","e","_","g","o","a","l">>
EXECUTE_GOAL == <<"e","x","e","c","u","t","e","_","g","o","a","l">>
VALIDATE_RESULT == <<"v","a","l","i","d","a","t","e","_","r","e","s","u","l","t">>
CALCULATE_SQUARE_ROOT ==
    <<"c","a","l","c","u","l","a","t","e","_","s","q","u","a","r","e","_","r","o","o","t">>
CREATE_FILE == <<"c","r","e","a","t","e","_","f","i","l","e">>
EXPLORE_TOOLS == <<"e","x","p","l","o","r","e","_","t","o","o","l","s">>
\* names the decomposer may produce that are not keys of the action table
WRITE_REPORT == <<"w","r","i","t","e","_","r","e","p","o","r","t">>
DELETE_FILES == <<"D","e","l","e","t","e","_","f","i","l","e","s">>
\* names and constraints used when validate_action is called directly
DELETE_FILE == <<"d","e","l","e","t","e","_","f","i","l","e">>
CALCULATE == <<"c","a","l","c","u","l","a","t","e">>
DELETE == <<"d","e","l","e","t","e">>
DELETE_UPPER == <<"D","E","L","E","T","E">>
NO_DELETE == <<"n","o","_","d","e","l","e","t","e">>
FILE == <<"f","i","l","e">>

\* Action strings the decomposition service is taken to return.
DecomposerActions ==
    {CALCULATE_SQUARE_ROOT, EXPLORE_TOOLS, WRITE_REPORT, DELETE_FILES}

\* identity.operating_constraints of the agent under test
operating_constraints == << <<"d","e","l","e","t","e">> >>

\* identity.preferred_mcp_servers of the agent under test
preferred_mcp_servers == <<"local-math">>

\* ------------------------------------------------------------ variables
VARIABLES
    goals,            \* Goal objects: status, progress, started_at, completed_at
    tasks,            \* Task objects created by decomposition, by task id
    next_task_id,     \* next fresh task id (uuid4 stand-in)
    current_goals,    \* AgentOntology.current_goals
    completed_goals,  \* AgentOntology.completed_goals
    active_tasks,     \* AgentOntology.active_tasks
    completed_tasks,  \* AgentOntology.completed_tasks
    exec,             \* one record per execute_goal coroutine slot
    calls,            \* number of execute_goal calls made so far
    is_running,       \* BaseAgent.is_running
    servers,          \* MCPServerManager.servers: server name -> config (NoConfig = no key)
    sessions,         \* EnhancedMCPClient.sessions: server name -> instance (0 = no key)
    active_servers,   \* EnhancedMCPClient.active_servers (its key set)
    exit_stack,       \* EnhancedMCPClient.exit_stack: entered contexts, oldest first
    next_inst,        \* next fresh subprocess/transport instance
    dead,             \* instances whose server process has died on its own
    context_db,       \* ContextDB: table -> id -> stored JSON text (NoRow = no row)
    update_queue,     \* the UpdateQueue object and the QueueItems it was given
    last_call,        \* outcome of the most recent client API call
    just_returned     \* slot whose execute_goal returned in the last step, or NoSlot

ontologyVars == <<goals, tasks, next_task_id, current_goals, completed_goals,
                  active_tasks, completed_tasks>>
agentVars == <<exec, calls, is_running>>
\* What lives outside the agent object: the MCP client and the context database.
clientVars == <<servers, sessions, active_servers, exit_stack, next_inst, dead, context_db,
                update_queue>>
vars == <<goals, tasks, next_task_id, current_goals, completed_goals,
          active_tasks, completed_tasks, exec, calls, is_running,
          servers, sessions, active_servers, exit_stack, next_inst, dead, context_db,
          update_queue, last_call,
          just_returned>>

\* ------------------------------------------------- Goal (goalsClasses.py)
\* A freshly constructed Goal: status PENDING, progress 0.0, no timestamps.
\* progress and completion_threshold are floats in the code, percentages here.
NewGoal ==
    [status |-> "pending", progress |-> 0, started_at |-> 0, completed_at |-> 0,
     completion_threshold |-> 100]

Min(a, b) == IF a < b THEN a ELSE b
Max(a, b) == IF a > b THEN a ELSE b

\* Mutant of update_progress: the value is stored as given.
update_progress_unclamped(goal, progress, now) ==
    LET g1 == [goal EXCEPT !.progress = progress] IN
    IF g1.progress >= g1.completion_threshold
    THEN [g1 EXCEPT !.status = "completed", !.completed_at = now]
    ELSE g1

\* Goal.update_progress(progress); now is the instant datetime.now() reads.
update_progress(goal, progress, now) ==
    LET g1 == [goal EXCEPT !.progress = Max(0, Min(100, progress))] IN
    IF g1.progress >= g1.completion_threshold
    THEN [g1 EXCEPT !.status = "completed", !.completed_at = now]
    ELSE g1

\* ---------------------------------------------- Task (ontology/tasks.py)
\* Task(task_id=uuid4, action=..., parent_goal=goal.goal_id), other fields default.
\* duration: Optional[timedelta] = None
NoDuration == -1

NewTask(action, goal_id) ==
    [action |-> action, parent_goal |-> goal_id, status |-> "pending",
     attempts |-> 0, max_attempts |-> 3, max_retries |-> 3,
     started_at |-> 0, completed_at |-> 0, duration |-> NoDuration,
     result |-> "", confidence |-> 0, quality_score |-> 0, tool_used |-> "",
     last_error |-> "", error_messages |-> <<>>]

\* Each method takes the instant(s) its datetime.now() call(s) read.
start_execution(t, now) ==
    [t EXCEPT !.status = "in_progress", !.started_at = now, !.attempts = @ + 1]

Task_complete_task(t, result, confidence, quality_score, now) ==
    [t EXCEPT !.status = "completed", !.completed_at = now, !.result = result,
              !.confidence = confidence, !.quality_score = quality_score,
              !.duration = IF t.started_at # 0 THEN now - t.started_at ELSE @]

fail_task(t, error_message, now) ==
    [t EXCEPT !.status = "failed", !.last_error = error_message,
              !.error_messages = Append(@, error_message),
              !.duration = IF t.started_at # 0 THEN now - t.started_at ELSE @]

can_retry(t) == t.attempts < t.max_attempts /\ t.status = "failed"

\* ------------------------------------- ContextDB (mcp/server/context_db.py)
\* The three tables and the ids used as primary keys.
Tables == {"identities", "goals", "tasks"}
DbIds == {"a", "b"}

\* Values handed to store_*: two JSON objects and a JSON array.
Blobs ==
    {[type |-> "dict", body |-> 1], [type |-> "dict", body |-> 2],
     [type |-> "list", body |-> 1]}

\* None as a return value.
NoBlob == [type |-> "none", body |-> 0]

\* json.dumps / json.loads: the text of a value and the value of a text.
json_dumps(v) == <<"json", v.type, v.body>>
json_loads(text) == [type |-> text[2], body |-> text[3]]

\* fetchone() found no row.
NoRow == <<>>

\* The tables after _initialize_db on a new file.
EmptyDB == [t \in Tables |-> [i \in DbIds |-> NoRow]]

_identity_type(v) == v.type = "dict"

\* INSERT OR REPLACE INTO <table> (id, data) VALUES (?, ?)
insert_or_replace(db, table, id, data_json) == [db EXCEPT ![table][id] = data_json]

store_identity(db, agent_id, identity_data) ==
    insert_or_replace(db, "identities", agent_id, json_dumps(identity_data))

store_goal(db, goal_id, goal_data) ==
    insert_or_replace(db, "goals", goal_id, json_dumps(goal_data))

store_task(db, task_id, task_data) ==
    insert_or_replace(db, "tasks", task_id, json_dumps(task_data))

\* The body shared by get_identity, get_goal and get_task: row[0] of no row
\* raises TypeError, a text that is not an object raises ValueError, and the
\* only return statement returns None.
get_row(db, table, id) ==
    LET row == db[table][id] IN
    IF row = NoRow THEN [raised |-> "TypeError", value |-> NoBlob]
    ELSE IF ~ _identity_type(json_loads(row))
    THEN [raised |-> "ValueError", value |-> NoBlob]
    ELSE [raised |-> "", value |-> NoBlob]

get_identity(db, agent_id) == get_row(db, "identities", agent_id)

get_goal(db, goal_id) == get_row(db, "goals", goal_id)

get_task(db, task_id) == get_row(db, "tasks", task_id)

\* ------------------- UpdateQueue (rag/document_manager/sync/update_queue.py)
\* Paths of the documents given to the queue.
Paths == {"a.md", "b.md"}

\* QueueItem(document, priority): retry_count 0, error None.  handed counts
\* how often get_batch returned the item (history, not a field of the class).
QueueItem(document, priority) ==
    [document |-> document, priority |-> priority, retry_count |-> 0, error |-> "",
     handed |-> 0]

\* UpdateQueue(max_retries).  items holds the QueueItem objects by identity
\* (index); queue, processing, failed and completed refer to them.  queue
\* lists the entries of the PriorityQueue in the order they were put;
\* processing maps a path to an item, 0 for no key.
NewUpdateQueue(max_retries) ==
    [items |-> <<>>, queue |-> <<>>, processing |-> [p \in Paths |-> 0],
     failed |-> <<>>, completed |-> <<>>, max_retries |-> max_retries]

\* add_documents(documents, priority): one QueueItem per document, each put
\* on the queue; returns the number added.
RECURSIVE add_documents(_, _, _)
add_documents(q, documents, priority) ==
    IF documents = <<>> THEN [uq |-> q, value |-> 0]
    ELSE LET q1 == [q EXCEPT !.items = Append(@, QueueItem(Head(documents), priority)),
                             !.queue = Append(@, Len(q.items) + 1)]
             r == add_documents(q1, Tail(documents), priority)
         IN  [uq |-> r.uq, value |-> r.value + 1]

\* Positions of the queue whose item no other queued item is less than
\* (QueueItem.__lt__ compares priority only).
Smallest(q) ==
    {k \in DOMAIN q.queue :
        \A j \in DOMAIN q.queue :
            ~ (q.items[q.queue[j]].priority < q.items[q.queue[k]].priority)}

\* queue.get_nowait(): the heap returns one of the smallest entries; which of
\* several equal ones it returns depends on the heap's layout (prefer).
get_nowait(q, prefer) ==
    LET S == Smallest(q) IN
    IF prefer = "first" THEN CHOOSE k \in S : \A j \in S : k <= j
    ELSE CHOOSE k \in S : \A j \in S : k >= j

\* get_batch(batch_size), lines 100-112: take items while the batch is short
\* and the queue is not empty, recording each under its path in processing.
RECURSIVE get_batch_loop(_, _, _, _)
get_batch_loop(q, batch, batch_size, prefer) ==
    IF ~ (Len(batch) < batch_size /\ q.queue # <<>>) THEN [uq |-> q, value |-> batch]
    ELSE LET k == get_nowait(q, prefer)
             item == q.queue[k]
             q1 == [q EXCEPT !.queue = [j \in 1..(Len(@) - 1) |->
                                           IF j < k THEN @[j] ELSE @[j + 1]],
                             !.processing[q.items[item].document] = item,
                             !.items[item].handed = @ + 1]
         IN  get_batch_loop(q1, Append(batch, item), batch_size, prefer)

get_batch(q, batch_size, prefer) == get_batch_loop(q, <<>>, batch_size, prefer)

\* mark_completed(item), lines 121-125.
mark_completed(q, item) ==
    [q EXCEPT !.processing[q.items[item].document] = 0,
              !.completed = Append(@, item)]

\* Mutant of mark_failed: the item is re-queued while retry_count <= max_retries.
mark_failed_one_more(q, item, error) ==
    LET q1 == [q EXCEPT !.processing[q.items[item].document] = 0,
                        !.items[item].error = error,
                        !.items[item].retry_count = @ + 1]
    IN  IF q1.items[item].retry_count <= q1.max_retries
        THEN [uq |-> [q1 EXCEPT !.items[item].priority = Min(@ + 1, 10),
                                !.queue = Append(@, item)],
              value |-> TRUE]
        ELSE [uq |-> [q1 EXCEPT !.failed = Append(@, item)], value |-> FALSE]

\* mark_failed(item, error), lines 142-158.
mark_failed(q, item, error) ==
    LET q1 == [q EXCEPT !.processing[q.items[item].document] = 0,
                        !.items[item].error = error,
                        !.items[item].retry_count = @ + 1]
    IN  IF q1.items[item].retry_count < q1.max_retries
        THEN [uq |-> [q1 EXCEPT !.items[item].priority = Min(@ + 1, 10),
                                !.queue = Append(@, item)],
              value |-> TRUE]
        ELSE [uq |-> [q1 EXCEPT !.failed = Append(@, item)], value |-> FALSE]

\* is_empty(), line 197.
is_empty(q) == q.queue = <<>> /\ \A p \in Paths : q.processing[p] = 0

\* ------------------------------------------- AgentOntology (ontology.py)
\* The ontology and the objects it refers to, as one value.
World ==
    [goals |-> goals, tasks |-> tasks, current_goals |-> current_goals,
     completed_goals |-> completed_goals, active_tasks |-> active_tasks,
     completed_tasks |-> completed_tasks]

RemoveAt(s, i) == [j \in 1..(Len(s) - 1) |-> IF j < i THEN s[j] ELSE s[j + 1]]

FirstIndex(s, x) ==
    IF \E i \in DOMAIN s : s[i] = x
    THEN CHOOSE i \in DOMAIN s : s[i] = x /\ \A j \in 1..(i - 1) : s[j] # x
    ELSE 0

add_goal(w, g) == [w EXCEPT !.current_goals = Append(@, g)]

complete_goal(w, goal_id) ==
    LET i == FirstIndex(w.current_goals, goal_id) IN
    IF i = 0 THEN w
    ELSE [w EXCEPT !.goals[goal_id].status = "completed",
                   !.goals[goal_id].completed_at = 1,
                   !.current_goals = RemoveAt(@, i),
                   !.completed_goals = Append(@, goal_id)]

add_task(w, tid) == [w EXCEPT !.active_tasks = Append(@, tid)]

complete_task(w, task_id, now) ==
    LET i == FirstIndex(w.active_tasks, task_id) IN
    IF i = 0 THEN w
    ELSE [w EXCEPT !.tasks[task_id].status = "completed",
                   !.tasks[task_id].completed_at = now,
                   !.active_tasks = RemoveAt(@, i),
                   !.completed_tasks = Append(@, task_id)]

get_active_goals(w) ==
    SelectSeq(w.current_goals, LAMBDA g : w.goals[g].status = "in_progress")

get_pending_tasks(w) ==
    SelectSeq(w.active_tasks, LAMBDA t : w.tasks[t].status = "pending")

\* assess_goal_feasibility returns the constant 0.7; the gate compares with 0.3.
FeasibilityScore == 70
FeasibilityThreshold == 30
assess_goal_feasibility(g) == FeasibilityScore

\* Mutant of validate_action: the comparison is case-sensitive.
validate_action_case_sensitive(constraints, action) ==
    ~ \E i \in DOMAIN constraints : IsSubstring(constraints[i], action)

\* validate_action(action, context) for an identity whose operating_constraints
\* is constraints; the context argument is not read.
validate_action(constraints, action) ==
    ~ \E i \in DOMAIN constraints : IsSubstring(lower(constraints[i]), lower(action))

\* --------------------------------- MCPServerManager (mcpServerManager.py)
\* The names registered by MCPServerManager.__init__.
ConfiguredServers == {"filesystem", "local-math", "context-db"}

\* Server names callers pass to the client (one of them is not registered).
CallNames == {"local-math", "filesystem", "no-such-server"}
ServerNames == ConfiguredServers \cup CallNames

\* Names add_server and get_server are called with.
RegistryNames == ServerNames \cup {"test-server"}

\* MCPServerConfig(name, command, ...); NoConfig marks a name without an entry.
Config(name, command) == [name |-> name, command |-> command]
NoConfig == Config("", "")

\* self.servers as built by MCPServerManager.__init__.
BuiltinServers ==
    [n \in RegistryNames |->
        CASE n = "filesystem" -> Config(n, "npx")
          [] n \in ConfiguredServers \ {"filesystem"} -> Config(n, "python")
          [] OTHER -> NoConfig]

\* get_server(name): the config, or ValueError for a name that is not a key.
get_server(reg, name) ==
    IF reg[name] = NoConfig
    THEN [raised |-> "ValueError", value |-> NoConfig]
    ELSE [raised |-> "", value |-> reg[name]]

get_server_raises(reg, name) == get_server(reg, name).raised # ""

\* Mutant of add_server: an existing entry is replaced.
add_server_overwrites(reg, config) ==
    [raised |-> IF reg[config.name] # NoConfig THEN "ValueError" ELSE "",
     servers |-> [reg EXCEPT ![config.name] = config]]

\* add_server(config): the registry afterwards and the exception raised.
add_server(reg, config) ==
    IF reg[config.name] # NoConfig
    THEN [raised |-> "ValueError", servers |-> reg]
    ELSE [raised |-> "", servers |-> [reg EXCEPT ![config.name] = config]]

\* ------------------------------------- EnhancedMCPClient (client.py)
\* The client object as one value.
Client ==
    [servers |-> servers, sessions |-> sessions, active_servers |-> active_servers,
     exit_stack |-> exit_stack, next_inst |-> next_inst]

SessionKeys(c) == {n \in ServerNames : c.sessions[n] # 0}

\* Transports (subprocess pipes) entered on the exit stack and not yet closed.
OpenInsts(stack) == {stack[i].inst : i \in {j \in DOMAIN stack : stack[j].kind = "stdio"}}

\* How far a connect gets: each await in connect() can raise.
ConnectOutcomes ==
    {"ok", "launch_raises", "session_enter_raises", "initialize_raises",
     "list_tools_raises", "list_resources_raises"}

StdioCtx(name, i) == [kind |-> "stdio", server |-> name, inst |-> i]
SessionCtx(name, i) == [kind |-> "session", server |-> name, inst |-> i]

\* Mutant of connect_register: only the session is stored.
connect_register_session_only(c, name, i) == [c EXCEPT !.sessions[name] = i]

\* Lines 112-113: the session is registered right after initialize().
connect_register(c, name, i) ==
    [c EXCEPT !.sessions[name] = i, !.active_servers = @ \cup {name}]

\* connect(server_name): the client afterwards and the exception raised ("" = none).
connect(c, name, outcome) ==
    IF c.sessions[name] # 0 THEN [client |-> c, raised |-> ""]
    ELSE IF get_server_raises(c.servers, name) THEN [client |-> c, raised |-> "unknown_server"]
    ELSE IF outcome = "launch_raises" THEN [client |-> c, raised |-> outcome]
    ELSE
      LET i == c.next_inst
          c1 == [c EXCEPT !.exit_stack = Append(@, StdioCtx(name, i)),
                          !.next_inst = i + 1]
          c2 == [c1 EXCEPT !.exit_stack = Append(@, SessionCtx(name, i))]
          c3 == connect_register(c2, name, i)
      IN  CASE outcome = "session_enter_raises" -> [client |-> c1, raised |-> outcome]
            [] outcome = "initialize_raises" -> [client |-> c2, raised |-> outcome]
            [] outcome = "list_tools_raises" -> [client |-> c3, raised |-> outcome]
            [] OTHER -> [client |-> c3, raised |-> ""]

\* disconnect(server_name)
disconnect(c, name) ==
    IF c.sessions[name] = 0 THEN c
    ELSE [c EXCEPT !.sessions[name] = 0, !.active_servers = @ \ {name}]

\* cleanup(): exit_stack.aclose() unwinds every entered context.
cleanup(c) == [c EXCEPT !.exit_stack = <<>>]

\* Results of session.call_tool: a result, a result flagged isError, or an exception.
CallOutcomes == {"ok", "is_error", "raises"}

\* A session whose transport is closed or whose process died can only raise.
PossibleCallOutcomes(stack, dd, i) ==
    IF i \in OpenInsts(stack) /\ i \notin dd THEN CallOutcomes ELSE {"raises"}

\* execute_tool: the guard of lines 195-199.
execute_tool_not_connected(c, name) == c.sessions[name] = 0

\* Mutant of execute_tool_result: an exception of call_tool is swallowed.
execute_tool_result_swallows(outcome) ==
    [raised |-> "", value |-> IF outcome = "raises" THEN "" ELSE outcome]

\* execute_tool: what the call returns or raises once call_tool has ended
\* (lines 204-211); value "" stands for no value.
execute_tool_result(outcome) ==
    IF outcome = "raises"
    THEN [raised |-> "call_error", value |-> ""]
    ELSE [raised |-> "", value |-> outcome]

\* The tools each server's session reports, in the order it reports them.
ServerTools(name) ==
    CASE name = "local-math" -> <<"sqrt">>
      [] name = "filesystem" -> <<"read_file", "write_file">>
      [] OTHER -> <<>>

\* The sessions dict in iteration order: keys in the order they were inserted
\* (instances are numbered in the order connect() registered them).
SessionOrder(c) ==
    LET K == SessionKeys(c) IN
    CHOOSE s \in [1..Cardinality(K) -> K] :
        \A i, j \in DOMAIN s : i < j => c.sessions[s[i]] < c.sessions[s[j]]

\* A session can answer list_tools only while its transport is open and its
\* process alive; otherwise session.list_tools() raises.
PossibleListed(c, dd) ==
    SUBSET {n \in SessionKeys(c) : c.sessions[n] \in OpenInsts(c.exit_stack) \ dd}

\* What list_tools hands back: a ListToolsResult (tools), None, or an exception.
ListResult(raised, is_none, tools) == [raised |-> raised, is_none |-> is_none, tools |-> tools]

\* Mutant of list_tools_loop: a session whose listing raises aborts the call.
RECURSIVE list_tools_loop_aborts(_, _, _, _, _)
list_tools_loop_aborts(c, order, server_name, listed, found) ==
    IF order = <<>> THEN ListResult("", found = <<>>, found)
    ELSE LET n == Head(order) IN
         IF server_name # "" /\ n # server_name
         THEN list_tools_loop_aborts(c, Tail(order), server_name, listed, found)
         ELSE IF n \notin c.active_servers THEN ListResult("KeyError", TRUE, <<>>)
         ELSE IF n \in listed
         THEN list_tools_loop_aborts(c, Tail(order), server_name, listed,
                                     found \o ServerTools(n))
         ELSE ListResult("listing_error", TRUE, <<>>)

\* list_tools, lines 162-181: the loop over sessions.items(); listed is the set
\* of sessions whose session.list_tools() returns, found the tools so far.
RECURSIVE list_tools_loop(_, _, _, _, _)
list_tools_loop(c, order, server_name, listed, found) ==
    IF order = <<>> THEN ListResult("", found = <<>>, found)
    ELSE LET n == Head(order) IN
         IF server_name # "" /\ n # server_name
         THEN list_tools_loop(c, Tail(order), server_name, listed, found)
         ELSE IF n \notin c.active_servers THEN ListResult("KeyError", TRUE, <<>>)
         ELSE IF n \in listed
         THEN list_tools_loop(c, Tail(order), server_name, listed, found \o ServerTools(n))
         ELSE list_tools_loop(c, Tail(order), server_name, listed, found)

\* list_tools(server_name), lines 154-181; server_name "" stands for None.
list_tools(c, server_name, listed) ==
    IF SessionKeys(c) = {} THEN ListResult("", TRUE, <<>>)
    ELSE list_tools_loop(c, SessionOrder(c), server_name, listed, <<>>)

\* ------------------------------------------------ BaseAgent (base.py)
\* TaskResult(task_id, success, result, tool_used, error); "" stands for None.
TaskResult(task_id, success, result, tool_used, error) ==
    [task_id |-> task_id, success |-> success, result |-> result,
     tool_used |-> tool_used, error |-> error]

NoError == [kind |-> "", task_id |-> 0, text |-> ""]

\* GoalResult(goal_id, success, result, error); result is None or a list of
\* TaskResults.  raised = TRUE would mean the call ended in an exception instead.
GoalResult(goal_id, success, result_is_none, result, error) ==
    [goal_id |-> goal_id, success |-> success, result_is_none |-> result_is_none,
     result |-> result, error |-> error, raised |-> FALSE]

NoGoalResult == GoalResult(0, FALSE, TRUE, <<>>, NoError)

\* The keys of action_mappings in _execute_task_action and the handler of each.
action_mappings ==
    {ANALYZE_GOAL, EXECUTE_GOAL, VALIDATE_RESULT, CALCULATE_SQUARE_ROOT,
     CREATE_FILE, EXPLORE_TOOLS}

\* _execute_task_action: the handler an action resolves to.
Handler(action) ==
    IF action \in action_mappings
    THEN CASE action = ANALYZE_GOAL -> "_analyze_goal_action"
           [] action = EXECUTE_GOAL -> "_execute_goal_action"
           [] action = VALIDATE_RESULT -> "_validate_result_action"
           [] action = CALCULATE_SQUARE_ROOT -> "_calculate_square_root_action"
           [] action = CREATE_FILE -> "_create_file_action"
           [] action = EXPLORE_TOOLS -> "_explore_tools_action"
    ELSE "_generic_tool_execution"

ToolHandlers == {"_calculate_square_root_action", "_create_file_action"}

\* The server a tool handler calls execute_tool on.
HandlerServer(handler) ==
    IF handler = "_calculate_square_root_action" THEN "local-math" ELSE "filesystem"

\* The value a tool handler stores in task.tool_used after a returned call.
HandlerToolUsed(handler) ==
    IF handler = "_calculate_square_root_action"
    THEN "local-math/sqrt" ELSE "filesystem/write_file"

\* What a handler hands back to execute_task: a value, or an exception.
HandlerReturn(value, tool_used) == [raised |-> "", value |-> value, tool_used |-> tool_used]
HandlerRaise(text) == [raised |-> text, value |-> "", tool_used |-> ""]

\* Mutant of pure_handler: an action without a handler of its own is an error.
pure_handler_generic_raises(handler) ==
    CASE handler = "_analyze_goal_action" -> HandlerReturn("Analysis completed", "")
      [] handler = "_execute_goal_action" -> HandlerReturn("Executed goal action", "")
      [] handler = "_validate_result_action" -> HandlerReturn("Validation completed", "")
      [] OTHER -> HandlerRaise("No handler for action")

\* Handlers that touch no tool: they return a formatted string.
pure_handler(handler) ==
    CASE handler = "_analyze_goal_action" -> HandlerReturn("Analysis completed", "")
      [] handler = "_execute_goal_action" -> HandlerReturn("Executed goal action", "")
      [] handler = "_validate_result_action" -> HandlerReturn("Validation completed", "")
      [] OTHER -> HandlerReturn("Generic execution completed", "")

\* _calculate_square_root_action / _create_file_action around execute_tool:
\* r is what execute_tool returned or raised.
tool_handler(handler, r) ==
    IF r.raised # ""
    THEN HandlerRaise("tool call failed")
    ELSE HandlerReturn(r.value, HandlerToolUsed(handler))

\* _explore_tools_action around list_tools(); changed = the sessions dict was
\* resized while list_tools was iterating it (the iteration then raises).
explore_handler(changed) ==
    IF changed
    THEN HandlerRaise("Failed to explore tools")
    ELSE HandlerReturn("Found tools", "mcp_client/list_tools")

\* Mutant of execute_task_rejected: the rejected task is marked failed.
execute_task_rejected_marks_failed(w, tid) ==
    [world |-> [w EXCEPT !.tasks[tid].status = "failed"],
     result |-> TaskResult(tid, FALSE, "", "", "Action not allowed by agent constraints")]

\* execute_task, lines 189-195: the constraint check rejects the action.
execute_task_rejected(w, tid) ==
    [world |-> w,
     result |-> TaskResult(tid, FALSE, "", "", "Action not allowed by agent constraints")]

\* Mutant of execute_task_completed: the TaskResult does not carry tool_used.
execute_task_completed_drops_tool(w, tid, h, now1, now2) ==
    LET t1 == [w.tasks[tid] EXCEPT !.tool_used = IF h.tool_used # "" THEN h.tool_used ELSE @]
        w1 == [w EXCEPT !.tasks[tid] = Task_complete_task(t1, h.value, 90, 80, now1)]
        w2 == complete_task(w1, tid, now2)
    IN  [world |-> w2, result |-> TaskResult(tid, TRUE, h.value, "", "")]

\* execute_task, lines 203-217: the handler returned h; now1 and now2 are the
\* instants read by task.complete_task and by ontology.complete_task.
execute_task_completed(w, tid, h, now1, now2) ==
    LET t1 == [w.tasks[tid] EXCEPT !.tool_used = IF h.tool_used # "" THEN h.tool_used ELSE @]
        w1 == [w EXCEPT !.tasks[tid] = Task_complete_task(t1, h.value, 90, 80, now1)]
        w2 == complete_task(w1, tid, now2)
    IN  [world |-> w2,
         result |-> TaskResult(tid, TRUE, h.value, w2.tasks[tid].tool_used, "")]

\* execute_task, lines 219-228: the handler raised h.raised.
execute_task_failed(w, tid, h) ==
    [world |-> [w EXCEPT !.tasks[tid].status = "failed"],
     result |-> TaskResult(tid, FALSE, "", "", h.raised)]

\* execute_task after the handler ended.
execute_task_end(w, tid, h) ==
    IF h.raised = "" THEN execute_task_completed(w, tid, h, 1, 1)
    ELSE execute_task_failed(w, tid, h)

\* Mutant of execute_goal_infeasible: the goal is admitted before the gate.
execute_goal_infeasible_admits(w, g) ==
    [world |-> add_goal(w, g),
     ret |-> GoalResult(g, FALSE, TRUE, <<>>,
                        [kind |-> "feasibility", task_id |-> 0,
                         text |-> "Goal feasibility too low"])]

\* execute_goal, lines 106-112: the feasibility gate.
execute_goal_infeasible(w, g) ==
    [world |-> w,
     ret |-> GoalResult(g, FALSE, TRUE, <<>>,
                        [kind |-> "feasibility", task_id |-> 0,
                         text |-> "Goal feasibility too low"])]

\* execute_goal, lines 115-117: admission.
execute_goal_admit(w, g) ==
    LET w1 == add_goal(w, g) IN
    [w1 EXCEPT !.goals[g].status = "in_progress", !.goals[g].started_at = 1]

\* Mutant of execute_goal_task_failed: the goal's status is not updated.
execute_goal_task_failed_keeps_status(w, g, task_results, tid, tr) ==
    [world |-> w,
     ret |-> GoalResult(g, FALSE, FALSE, task_results,
                        [kind |-> "task_failed", task_id |-> tid, text |-> tr.error])]

\* execute_goal, lines 130-140: a task's result has success = False.
execute_goal_task_failed(w, g, task_results, tid, tr) ==
    [world |-> [w EXCEPT !.goals[g].status = "failed"],
     ret |-> GoalResult(g, FALSE, FALSE, task_results,
                        [kind |-> "task_failed", task_id |-> tid, text |-> tr.error])]

\* Mutant of execute_goal_all_succeeded: progress is not set to 1.0.
execute_goal_all_succeeded_no_progress(w, g, task_results) ==
    LET w1 == [w EXCEPT !.goals[g].status = "completed",
                        !.goals[g].completed_at = 1]
    IN  [world |-> complete_goal(w1, g),
         ret |-> GoalResult(g, TRUE, FALSE, task_results, NoError)]

\* execute_goal, lines 142-156: the loop over the tasks ran to its end.
execute_goal_all_succeeded(w, g, task_results) ==
    LET w1 == [w EXCEPT !.goals[g].status = "completed",
                        !.goals[g].completed_at = 1,
                        !.goals[g].progress = 100]
    IN  [world |-> complete_goal(w1, g),
         ret |-> GoalResult(g, TRUE, FALSE, task_results, NoError)]

\* Mutant of execute_goal_except: the handler re-raises after marking the goal.
execute_goal_except_reraises(w, g, text) ==
    [world |-> [w EXCEPT !.goals[g].status = "failed"],
     ret |-> [GoalResult(g, FALSE, TRUE, <<>>,
                         [kind |-> "exception", task_id |-> 0, text |-> text])
                EXCEPT !.raised = TRUE]]

\* execute_goal, lines 158-169: an exception reached the outer handler.
execute_goal_except(w, g, text) ==
    [world |-> [w EXCEPT !.goals[g].status = "failed"],
     ret |-> GoalResult(g, FALSE, TRUE, <<>>,
                        [kind |-> "exception", task_id |-> 0, text |-> text])]

\* execute_tool, lines 195-199: ValueError("Not connected to ...").
execute_tool_refused == [raised |-> "not_connected", value |-> ""]

\* _decompose_goal_into_tasks, lines 332-355: structured is the task list of the
\* structured output (<<>> when it is None or empty), response_error whether the
\* text response carries an error.  The result is the actions Tasks are made for.
decompose_goal_into_tasks(structured, response_error) ==
    IF response_error THEN <<>>
    ELSE IF structured = <<>> THEN <<>>
    ELSE structured

\* Task lists the structured output may hold.
StructuredOutputs ==
    {<<>>} \cup UNION {[1..n -> DecomposerActions] : n \in 1..MaxTasks}

\* ------------------------------------------------ execute_goal coroutine
IdleSlot ==
    [pc |-> "idle", goal |-> 0, decomposed |-> FALSE, task_ids |-> <<>>, idx |-> 0,
     results |-> <<>>, ret |-> NoGoalResult, handler |-> "", inst |-> 0, snap |-> 0,
     server |-> "", batch |-> <<>>]

SetWorld(w) ==
    /\ goals' = w.goals
    /\ tasks' = w.tasks
    /\ current_goals' = w.current_goals
    /\ completed_goals' = w.completed_goals
    /\ active_tasks' = w.active_tasks
    /\ completed_tasks' = w.completed_tasks

Returned(x, o) ==
    [world |-> o.world, slot |-> [x EXCEPT !.pc = "returned", !.ret = o.ret]]

\* Mutant of after_task: the loop does not look at the task's success flag.
after_task_no_abort(w, x, tid, tr) ==
    LET x1 == [x EXCEPT !.results = Append(@, tr)] IN
    IF x.idx = Len(x.task_ids)
    THEN Returned(x1, execute_goal_all_succeeded(w, x.goal, x1.results))
    ELSE [world |-> w, slot |-> [x1 EXCEPT !.pc = "task", !.idx = @ + 1]]

\* Mutant of after_task: a task turned down by validate_action is skipped and
\* the loop goes on to the next task.
after_task_skips_rejected(w, x, tid, tr) ==
    LET x1 == [x EXCEPT !.results = Append(@, tr)] IN
    IF ~ tr.success /\ (w.tasks[tid].attempts > 0 \/ x.idx = Len(x.task_ids))
    THEN Returned(x1, execute_goal_task_failed(w, x.goal, x1.results, tid, tr))
    ELSE IF x.idx = Len(x.task_ids)
    THEN Returned(x1, execute_goal_all_succeeded(w, x.goal, x1.results))
    ELSE [world |-> w, slot |-> [x1 EXCEPT !.pc = "task", !.idx = @ + 1]]

\* Mutant of after_task: a failed task that can_retry() is executed again.
after_task_retries(w, x, tid, tr) ==
    LET x1 == [x EXCEPT !.results = Append(@, tr)] IN
    IF ~ tr.success /\ can_retry(w.tasks[tid])
    THEN [world |-> w, slot |-> [x EXCEPT !.pc = "task"]]
    ELSE IF ~ tr.success
    THEN Returned(x1, execute_goal_task_failed(w, x.goal, x1.results, tid, tr))
    ELSE IF x.idx = Len(x.task_ids)
    THEN Returned(x1, execute_goal_all_succeeded(w, x.goal, x1.results))
    ELSE [world |-> w, slot |-> [x1 EXCEPT !.pc = "task", !.idx = @ + 1]]

\* Mutant of after_task: the loop also gives up when any task the ontology
\* holds as active has failed, whichever goal it belongs to.
after_task_aborts_on_any_failure(w, x, tid, tr) ==
    LET x1 == [x EXCEPT !.results = Append(@, tr)] IN
    IF ~ tr.success \/ \E t \in Range(w.active_tasks) : w.tasks[t].status = "failed"
    THEN Returned(x1, execute_goal_task_failed(w, x.goal, x1.results, tid, tr))
    ELSE IF x.idx = Len(x.task_ids)
    THEN Returned(x1, execute_goal_all_succeeded(w, x.goal, x1.results))
    ELSE [world |-> w, slot |-> [x1 EXCEPT !.pc = "task", !.idx = @ + 1]]

\* execute_goal, lines 125-156: the loop after execute_task returned tr for the
\* task at x.idx.
after_task(w, x, tid, tr) ==
    LET x1 == [x EXCEPT !.results = Append(@, tr)] IN
    IF ~ tr.success
    THEN Returned(x1, execute_goal_task_failed(w, x.goal, x1.results, tid, tr))
    ELSE IF x.idx = Len(x.task_ids)
    THEN Returned(x1, execute_goal_all_succeeded(w, x.goal, x1.results))
    ELSE [world |-> w, slot |-> [x1 EXCEPT !.pc = "task", !.idx = @ + 1]]

Apply(e, o) ==
    /\ SetWorld(o.world)
    /\ exec' = [exec EXCEPT ![e] = o.slot]
    /\ just_returned' = IF o.slot.pc = "returned" THEN e ELSE NoSlot

\* execute_goal(goal) up to its first await (the decomposition request), for
\* an agent whose ontology scores the goal with feasibility.
ExecuteGoalScored(e, g, feasibility) ==
    /\ exec[e].pc \in {"idle", "returned"}
    /\ calls < MaxCalls
    /\ calls' = calls + 1
    /\ LET x == [IdleSlot EXCEPT !.goal = g] IN
       IF feasibility < FeasibilityThreshold
       THEN Apply(e, Returned(x, execute_goal_infeasible(World, g)))
       ELSE Apply(e, [world |-> execute_goal_admit(World, g),
                      slot |-> [x EXCEPT !.pc = "decomposing"]])
    /\ UNCHANGED <<next_task_id, is_running, clientVars, last_call>>

\* execute_goal(goal) of an agent built on AgentOntology as shipped.
ExecuteGoal(e, g) == ExecuteGoalScored(e, g, assess_goal_feasibility(g))

\* _decompose_goal_into_tasks raises (client construction, prompt, ...).
DecomposeRaises(e) ==
    /\ exec[e].pc = "decomposing"
    /\ Apply(e, Returned(exec[e],
                         execute_goal_except(World, exec[e].goal, "decomposition raised")))
    /\ UNCHANGED <<next_task_id, calls, is_running, clientVars, last_call>>

\* Mutant of DecomposeReturns: every produced task is admitted to the
\* ontology as soon as the decomposition returns.
DecomposeReturns_admits_all(e, structured, response_error) ==
    /\ exec[e].pc = "decomposing"
    /\ LET acts == decompose_goal_into_tasks(structured, response_error)
           n == Len(acts)
           ids == [k \in 1..n |-> next_task_id + k - 1]
           w1 == [World EXCEPT
                    !.tasks = @ \o [k \in 1..n |-> NewTask(acts[k], exec[e].goal)],
                    !.active_tasks = @ \o ids]
           x1 == [exec[e] EXCEPT !.decomposed = TRUE, !.task_ids = ids, !.idx = 1,
                                 !.pc = "task"]
       IN  /\ next_task_id' = next_task_id + n
           /\ IF n = 0
              THEN Apply(e, Returned(x1, execute_goal_all_succeeded(w1, x1.goal, <<>>)))
              ELSE Apply(e, [world |-> w1, slot |-> x1])
    /\ UNCHANGED <<calls, is_running, clientVars, last_call>>

\* _decompose_goal_into_tasks returns; the loop starts (or is skipped).
DecomposeReturns(e, structured, response_error) ==
    /\ exec[e].pc = "decomposing"
    /\ LET acts == decompose_goal_into_tasks(structured, response_error)
           n == Len(acts)
           ids == [k \in 1..n |-> next_task_id + k - 1]
           w1 == [World EXCEPT
                    !.tasks = @ \o [k \in 1..n |-> NewTask(acts[k], exec[e].goal)]]
           x1 == [exec[e] EXCEPT !.decomposed = TRUE, !.task_ids = ids, !.idx = 1,
                                 !.pc = "task"]
       IN  /\ next_task_id' = next_task_id + n
           /\ IF n = 0
              THEN Apply(e, Returned(x1, execute_goal_all_succeeded(w1, x1.goal, <<>>)))
              ELSE Apply(e, [world |-> w1, slot |-> x1])
    /\ UNCHANGED <<calls, is_running, clientVars, last_call>>

\* One loop iteration: add_task, then execute_task up to the handler's await
\* (or to its end when the handler does not wait for a tool server).
RunTask(e) ==
    /\ exec[e].pc = "task"
    /\ LET x == exec[e]
           tid == x.task_ids[x.idx]
           w0 == add_task(World, tid)
           w1 == [w0 EXCEPT !.tasks[tid] = start_execution(@, 1)]
           h == Handler(tasks[tid].action)
           Finish(hr) == LET r == execute_task_end(w1, tid, hr)
                         IN  Apply(e, after_task(r.world, x, tid, r.result))
       IN  IF ~ validate_action(operating_constraints, tasks[tid].action)
           THEN LET r == execute_task_rejected(w0, tid)
                IN  Apply(e, after_task(r.world, x, tid, r.result))
           ELSE IF h \in ToolHandlers
           THEN IF execute_tool_not_connected(Client, HandlerServer(h))
                THEN Finish(tool_handler(h, execute_tool_refused))
                ELSE Apply(e, [world |-> w1,
                               slot |-> [x EXCEPT !.pc = "call_tool", !.handler = h,
                                                  !.inst = sessions[HandlerServer(h)]]])
           ELSE IF h = "_explore_tools_action"
           THEN IF SessionKeys(Client) = {}
                THEN Finish(explore_handler(FALSE))
                ELSE Apply(e, [world |-> w1,
                               slot |-> [x EXCEPT !.pc = "list_tools", !.handler = h,
                                                  !.snap = Cardinality(SessionKeys(Client))]])
           ELSE Finish(pure_handler(h))
    /\ UNCHANGED <<next_task_id, calls, is_running, clientVars, last_call>>

\* session.call_tool ends; execute_tool, the handler and execute_task finish.
ToolReturns(e, outcome) ==
    /\ exec[e].pc = "call_tool"
    /\ outcome \in PossibleCallOutcomes(exit_stack, dead, exec[e].inst)
    /\ LET x == exec[e]
           tid == x.task_ids[x.idx]
           r == execute_task_end(World, tid, tool_handler(x.handler, execute_tool_result(outcome)))
       IN  Apply(e, after_task(r.world, x, tid, r.result))
    /\ UNCHANGED <<next_task_id, calls, is_running, clientVars, last_call>>

\* list_tools ends; the handler and execute_task finish.
ListToolsReturns(e) ==
    /\ exec[e].pc = "list_tools"
    /\ LET x == exec[e]
           tid == x.task_ids[x.idx]
           changed == Cardinality(SessionKeys(Client)) # x.snap
           r == execute_task_end(World, tid, explore_handler(changed))
       IN  Apply(e, after_task(r.world, x, tid, r.result))
    /\ UNCHANGED <<next_task_id, calls, is_running, clientVars, last_call>>

SetClient(c) ==
    /\ servers' = c.servers
    /\ sessions' = c.sessions
    /\ active_servers' = c.active_servers
    /\ exit_stack' = c.exit_stack
    /\ next_inst' = c.next_inst
    /\ UNCHANGED <<context_db, update_queue>>

\* start(), lines 69-74: connect to each preferred server, swallowing failures.
RECURSIVE start_connects(_, _, _)
start_connects(c, names, outs) ==
    IF names = <<>> THEN c
    ELSE start_connects(connect(c, Head(names), Head(outs)).client, Tail(names), Tail(outs))

Start(outs) ==
    /\ IF is_running
       THEN UNCHANGED <<clientVars, is_running>>
       ELSE LET c == start_connects(Client, preferred_mcp_servers, outs) IN
            /\ c.next_inst <= MaxConnects + 1
            /\ SetClient(c)
            /\ is_running' = TRUE
            /\ UNCHANGED dead
    /\ just_returned' = NoSlot
    /\ UNCHANGED <<ontologyVars, exec, calls, last_call>>

\* An exit callback of a transport whose process already died may raise.
cleanup_may_raise(stack, dd) == OpenInsts(stack) \cap dd # {}

\* stop(), lines 81-87; raises = cleanup() raised, so is_running is not reset.
Stop(raises) ==
    /\ IF ~ is_running
       THEN /\ ~ raises
            /\ UNCHANGED <<clientVars, is_running>>
       ELSE /\ raises => cleanup_may_raise(exit_stack, dead)
            /\ SetClient(cleanup(Client))
            /\ is_running' = (IF raises THEN is_running ELSE FALSE)
            /\ UNCHANGED dead
    /\ just_returned' = NoSlot
    /\ UNCHANGED <<ontologyVars, exec, calls, last_call>>

\* A server process dies on its own.
Crash(i) ==
    /\ i \in OpenInsts(exit_stack) \ dead
    /\ dead' = dead \cup {i}
    /\ just_returned' = NoSlot
    /\ UNCHANGED <<ontologyVars, agentVars, servers, sessions, active_servers,
                   exit_stack, next_inst, context_db, update_queue, last_call>>

\* ------------------------------------------------ direct client calls
\* What a caller of the client observes of one call: the operation, its
\* argument, whether the server had a session when the call was made, what the
\* server side did (outcome), the exception raised ("" = none), how many calls
\* were forwarded to a session, and the value returned.
CallRecord(op, server, had_session, outcome, raised, forwarded, value) ==
    [op |-> op, server |-> server, had_session |-> had_session, outcome |-> outcome,
     raised |-> raised, forwarded |-> forwarded, value |-> value]

NoCall == CallRecord("", "", FALSE, "", "", 0, "")

\* disconnect(server_name) as its caller sees it: the two del statements of
\* lines 141-142 raise KeyError when the key is missing.
disconnect_raised(c, name) ==
    IF c.sessions[name] # 0 /\ name \notin c.active_servers THEN "KeyError" ELSE ""

\* execute_tool(server_name, tool_name, args), lines 189-211, given what
\* session.call_tool does when it is reached.
execute_tool(c, name, outcome) ==
    IF execute_tool_not_connected(c, name)
    THEN [raised |-> execute_tool_refused.raised, value |-> "", forwarded |-> 0]
    ELSE [raised |-> execute_tool_result(outcome).raised,
          value |-> execute_tool_result(outcome).value, forwarded |-> 1]

Connect(name, outcome) ==
    /\ LET r == connect(Client, name, outcome) IN
       /\ r.client.next_inst <= MaxConnects + 1
       /\ SetClient(r.client)
       /\ last_call' = CallRecord("connect", name, sessions[name] # 0, outcome,
                                  r.raised, 0, "")
    /\ just_returned' = NoSlot
    /\ UNCHANGED <<ontologyVars, agentVars, dead>>

Disconnect(name) ==
    /\ SetClient(disconnect(Client, name))
    /\ last_call' = CallRecord("disconnect", name, sessions[name] # 0, "",
                               disconnect_raised(Client, name), 0, "")
    /\ just_returned' = NoSlot
    /\ UNCHANGED <<ontologyVars, agentVars, dead>>

Cleanup(raises) ==
    /\ raises => cleanup_may_raise(exit_stack, dead)
    /\ SetClient(cleanup(Client))
    /\ last_call' = CallRecord("cleanup", "", FALSE, "",
                               IF raises THEN "exit_error" ELSE "", 0, "")
    /\ just_returned' = NoSlot
    /\ UNCHANGED <<ontologyVars, agentVars, dead>>

ExecuteTool(name, outcome) ==
    /\ sessions[name] # 0 => outcome \in PossibleCallOutcomes(exit_stack, dead, sessions[name])
    /\ sessions[name] = 0 => outcome = "ok"
    /\ LET r == execute_tool(Client, name, outcome) IN
       last_call' = CallRecord("execute_tool", name, sessions[name] # 0, outcome,
                               r.raised, r.forwarded, r.value)
    /\ just_returned' = NoSlot
    /\ UNCHANGED <<ontologyVars, agentVars, clientVars>>

\* list_tools(server_name) called directly; listed is chosen by the servers.
ListTools(name, listed) ==
    /\ listed \in PossibleListed(Client, dead)
    /\ LET r == list_tools(Client, name, listed) IN
       last_call' = CallRecord("list_tools", name, SessionKeys(Client) # {}, listed,
                               r.raised,
                               Cardinality({n \in SessionKeys(Client) : name \in {"", n}}), r)
    /\ just_returned' = NoSlot
    /\ UNCHANGED <<ontologyVars, agentVars, clientVars>>

Init ==
    /\ goals = [g \in Goals |-> NewGoal]
    /\ tasks = <<>>
    /\ next_task_id = 1
    /\ current_goals = <<>>
    /\ completed_goals = <<>>
    /\ active_tasks = <<>>
    /\ completed_tasks = <<>>
    /\ exec = [e \in Slots |-> IdleSlot]
    /\ calls = 0
    /\ is_running = FALSE
    /\ servers = BuiltinServers
    /\ sessions = [n \in ServerNames |-> 0]
    /\ active_servers = {}
    /\ exit_stack = <<>>
    /\ next_inst = 1
    /\ dead = {}
    /\ context_db = EmptyDB
    /\ update_queue = NewUpdateQueue(3)
    /\ last_call = NoCall
    /\ just_returned = NoSlot

\* The steps of the agent when the execute_goal calls in flight use the slots S.
AgentNext(S) ==
    \/ \E e \in S, g \in Goals : ExecuteGoal(e, g)
    \/ \E e \in S : DecomposeRaises(e)
    \/ \E e \in S, st \in StructuredOutputs, err \in BOOLEAN : DecomposeReturns(e, st, err)
    \/ \E e \in S : RunTask(e)
    \/ \E e \in S, o \in CallOutcomes : ToolReturns(e, o)
    \/ \E e \in S : ListToolsReturns(e)
    \/ \E outs \in [1..Len(preferred_mcp_servers) -> ConnectOutcomes] : Start(outs)
    \/ \E r \in BOOLEAN : Stop(r)

\* One caller that awaits each execute_goal before making the next call.
Next == AgentNext({"s1"})

Spec == Init /\ [][Next]_vars

\* A caller that drives the client directly, one call after the other.
ClientNext ==
    \/ \E n \in CallNames, o \in ConnectOutcomes : Connect(n, o)
    \/ \E n \in CallNames : Disconnect(n)
    \/ \E r \in BOOLEAN : Cleanup(r)
    \/ \E n \in CallNames, o \in CallOutcomes : ExecuteTool(n, o)
    \/ \E i \in Insts : Crash(i)
    \/ \E n \in CallNames \cup {""}, l \in SUBSET CallNames : ListTools(n, l)

ClientSpec == Init /\ [][ClientNext]_vars

\* ------------------------------------- MCPServerManager called directly
ConfigInputs == {Config(n, c) : n \in RegistryNames, c \in {"python", "echo"}}

GetServer(name) ==
    /\ last_call' = [op |-> "get_server", name |-> name, before |-> servers,
                     raised |-> get_server(servers, name).raised,
                     value |-> get_server(servers, name).value]
    /\ just_returned' = NoSlot
    /\ UNCHANGED <<ontologyVars, agentVars, clientVars>>

AddServer(config) ==
    /\ servers' = add_server(servers, config).servers
    /\ last_call' = [op |-> "add_server", config |-> config, before |-> servers,
                     raised |-> add_server(servers, config).raised]
    /\ just_returned' = NoSlot
    /\ UNCHANGED <<ontologyVars, agentVars, sessions, active_servers, exit_stack,
                   next_inst, dead, context_db, update_queue>>

RegistryNext ==
    \/ \E n \in RegistryNames : GetServer(n)
    \/ \E c \in ConfigInputs : AddServer(c)

RegistrySpec == Init /\ [][RegistryNext]_vars

\* start() and stop() of an agent whose identity prefers several servers, one
\* of them not registered; last_call records what the caller of start() sees.
StartServers == <<"local-math", "no-such-server", "filesystem">>

StartCall(outs) ==
    /\ is_running => \A k \in DOMAIN outs : outs[k] = "ok"
    /\ LET c == IF is_running THEN Client ELSE start_connects(Client, StartServers, outs) IN
       /\ c.next_inst <= MaxConnects + 1
       /\ SetClient(c)
    /\ is_running' = TRUE
    /\ last_call' = [op |-> "start", preferred |-> StartServers, outs |-> outs,
                     was_running |-> is_running, before |-> sessions,
                     registry |-> servers, raised |-> ""]
    /\ just_returned' = NoSlot
    /\ UNCHANGED <<ontologyVars, exec, calls, dead>>

StopCall(raises) ==
    /\ Stop(raises)
    /\ is_running

StartNext ==
    \/ \E outs \in [1..Len(StartServers) -> ConnectOutcomes] : StartCall(outs)
    \/ \E r \in BOOLEAN : StopCall(r)
    \/ \E i \in Insts : Crash(i)

StartSpec == Init /\ [][StartNext]_vars

\* An agent that was never started, built on an ontology (BaseAgent.__init__
\* takes any AgentOntology) whose assess_goal_feasibility may score a goal
\* anywhere from 0.0 to 1.0.
FeasibilityScores == {0, FeasibilityThreshold - 1, FeasibilityThreshold, FeasibilityScore, 100}

\* Decompositions that end a call in each way: no task, a task that succeeds,
\* a task that is rejected (alone or after another), a task whose handler
\* raises (no server is connected).
GateOutputs ==
    {<<>>, <<WRITE_REPORT>>, <<DELETE_FILES>>, <<CALCULATE_SQUARE_ROOT>>,
     <<WRITE_REPORT, DELETE_FILES>>}

GateNext ==
    \/ \E g \in Goals, f \in FeasibilityScores : ExecuteGoalScored("s1", g, f)
    \/ DecomposeRaises("s1")
    \/ \E st \in GateOutputs : DecomposeReturns("s1", st, FALSE)
    \/ RunTask("s1")

GateSpec == Init /\ [][GateNext]_vars

\* The agent as shipped, started and stopped by its owner, with a
\* decomposition service that returns one of a few task lists: a task that
\* succeeds, a task that is rejected, a tool call followed by another task.
RunOutputs == {<<WRITE_REPORT>>, <<DELETE_FILES>>, <<CALCULATE_SQUARE_ROOT, WRITE_REPORT>>}

RunNext ==
    \/ \E g \in Goals : ExecuteGoal("s1", g)
    \/ DecomposeRaises("s1")
    \/ \E st \in RunOutputs : DecomposeReturns("s1", st, FALSE)
    \/ RunTask("s1")
    \/ \E o \in CallOutcomes : ToolReturns("s1", o)
    \/ \E outs \in [1..Len(preferred_mcp_servers) -> ConnectOutcomes] : Start(outs)
    \/ \E r \in BOOLEAN : Stop(r)

RunSpec == Init /\ [][RunNext]_vars

\* Two callers that each await their own execute_goal calls on one started
\* agent, so that two calls may be suspended at the same time.
ConcOutputs == {<<CALCULATE_SQUARE_ROOT, WRITE_REPORT>>, <<DELETE_FILES>>}

ConcNext ==
    \/ \E e \in Slots, g \in Goals : ExecuteGoal(e, g)
    \/ \E e \in Slots, st \in ConcOutputs : DecomposeReturns(e, st, FALSE)
    \/ \E e \in Slots : RunTask(e)
    \/ \E e \in Slots, o \in CallOutcomes : ToolReturns(e, o)
    \/ \E outs \in [1..Len(preferred_mcp_servers) -> ConnectOutcomes] : Start(outs)

ConcSpec == Init /\ [][ConcNext]_vars

\* ------------------------------------------------ a Task driven directly
\* The task under test is tasks[1]; its owner may construct it with any
\* max_attempts and retry_policy.max_retries.
TaskInputs ==
    {[NewTask(a, 1) EXCEPT !.max_attempts = m, !.max_retries = r] :
        a \in {WRITE_REPORT, DELETE_FILES}, m \in 1..MaxRetries, r \in 1..MaxRetries}

Latest(t) == IF t.started_at > t.completed_at THEN t.started_at ELSE t.completed_at

\* Instants the next datetime.now() may read: none earlier than one recorded.
Instants(t) == {n \in 1..MaxTime : n >= Latest(t)}

TaskFrame ==
    UNCHANGED <<goals, next_task_id, current_goals, completed_goals, active_tasks,
                completed_tasks, agentVars, clientVars, last_call, just_returned>>

TaskStart(now) ==
    /\ tasks[1].attempts < MaxStarts
    /\ now \in Instants(tasks[1])
    /\ tasks' = [tasks EXCEPT ![1] = start_execution(@, now)]
    /\ TaskFrame

TaskComplete(now) ==
    /\ now \in Instants(tasks[1])
    /\ tasks' = [tasks EXCEPT ![1] = Task_complete_task(@, "done", 100, 100, now)]
    /\ TaskFrame

TaskFail(now) ==
    /\ Len(tasks[1].error_messages) < MaxStarts
    /\ now \in Instants(tasks[1])
    /\ tasks' = [tasks EXCEPT ![1] = fail_task(@, "failed", now)]
    /\ TaskFrame

\* The executor runs the task: add_task and execute_task (base.py 126-127);
\* raises = the handler raised; now1 <= now2 <= now3 are the instants read by
\* start_execution, task.complete_task and ontology.complete_task.
TaskExecute(raises, now1, now2, now3) ==
    /\ tasks[1].attempts < MaxStarts
    /\ Len(active_tasks) < MaxStarts
    /\ now1 \in Instants(tasks[1])
    /\ now1 <= now2 /\ now2 <= now3
    /\ LET w0 == add_task(World, 1)
           w1 == [w0 EXCEPT !.tasks[1] = start_execution(@, now1)]
           h == IF raises THEN HandlerRaise("handler raised")
                ELSE pure_handler(Handler(tasks[1].action))
       IN  IF ~ validate_action(operating_constraints, tasks[1].action)
           THEN SetWorld(execute_task_rejected(w0, 1).world)
           ELSE IF h.raised = ""
           THEN SetWorld(execute_task_completed(w1, 1, h, now2, now3).world)
           ELSE SetWorld(execute_task_failed(w1, 1, h).world)
    /\ UNCHANGED <<next_task_id, agentVars, clientVars, last_call, just_returned>>

TaskInit ==
    /\ tasks \in {<<t>> : t \in TaskInputs}
    /\ next_task_id = 2
    /\ goals = [g \in Goals |-> NewGoal]
    /\ current_goals = <<>>
    /\ completed_goals = <<>>
    /\ active_tasks = <<>>
    /\ completed_tasks = <<>>
    /\ exec = [e \in Slots |-> IdleSlot]
    /\ calls = 0
    /\ is_running = FALSE
    /\ servers = BuiltinServers
    /\ sessions = [n \in ServerNames |-> 0]
    /\ active_servers = {}
    /\ exit_stack = <<>>
    /\ next_inst = 1
    /\ dead = {}
    /\ context_db = EmptyDB
    /\ update_queue = NewUpdateQueue(3)
    /\ last_call = NoCall
    /\ just_returned = NoSlot

TaskNext ==
    \/ \E now \in 1..MaxTime : TaskStart(now)
    \/ \E now \in 1..MaxTime : TaskComplete(now)
    \/ \E now \in 1..MaxTime : TaskFail(now)
    \/ \E r \in BOOLEAN, n1, n2, n3 \in 1..MaxTime : TaskExecute(r, n1, n2, n3)

TaskSpec == TaskInit /\ [][TaskNext]_vars

\* ------------------------------------------ validate_action called directly
MaxConstraints == 2

ConstraintInputs == {DELETE, DELETE_UPPER, NO_DELETE, FILE, <<>>}
ConstraintLists == UNION {[1..n -> ConstraintInputs] : n \in 0..MaxConstraints}
ActionInputs == {DELETE_FILE, DELETE_FILES, CALCULATE, CALCULATE_SQUARE_ROOT, WRITE_REPORT}

ValidateAction(constraints, action) ==
    /\ last_call' = [op |-> "validate_action", constraints |-> constraints,
                     action |-> action, value |-> validate_action(constraints, action)]
    /\ just_returned' = NoSlot
    /\ UNCHANGED <<ontologyVars, agentVars, clientVars>>

ValidateNext == \E cs \in ConstraintLists, a \in ActionInputs : ValidateAction(cs, a)

ValidateSpec == Init /\ [][ValidateNext]_vars

\* ------------------------------------- Goal.update_progress called directly
\* The first goal as a caller may construct it (status and completion_threshold
\* are constructor arguments), and the progress values it may report.
GoalInputs ==
    {[NewGoal EXCEPT !.status = st, !.completion_threshold = th] :
        st \in {"pending", "in_progress", "failed"}, th \in {0, 50, 100}}

ProgressInputs == {-20, 0, 30, 50, 80, 100, 130}

UpdateProgress(g, progress, now) ==
    /\ goals' = [goals EXCEPT ![g] = update_progress(@, progress, now)]
    /\ last_call' = [op |-> "update_progress", goal |-> g, progress |-> progress,
                     before |-> goals[g]]
    /\ just_returned' = NoSlot
    /\ UNCHANGED <<tasks, next_task_id, current_goals, completed_goals, active_tasks,
                   completed_tasks, agentVars, clientVars>>

GoalInit ==
    /\ goals \in {[g \in Goals |-> IF g = 1 THEN gi ELSE NewGoal] : gi \in GoalInputs}
    /\ tasks = <<>>
    /\ next_task_id = 1
    /\ current_goals = <<>>
    /\ completed_goals = <<>>
    /\ active_tasks = <<>>
    /\ completed_tasks = <<>>
    /\ exec = [e \in Slots |-> IdleSlot]
    /\ calls = 0
    /\ is_running = FALSE
    /\ servers = BuiltinServers
    /\ sessions = [n \in ServerNames |-> 0]
    /\ active_servers = {}
    /\ exit_stack = <<>>
    /\ next_inst = 1
    /\ dead = {}
    /\ context_db = EmptyDB
    /\ update_queue = NewUpdateQueue(3)
    /\ last_call = NoCall
    /\ just_returned = NoSlot

GoalNext == \E p \in ProgressInputs, now \in 1..MaxTime : UpdateProgress(1, p, now)

GoalSpec == GoalInit /\ [][GoalNext]_vars

\* ------------------------------------------- ContextDB called directly
StoreCall(table, id, data) ==
    /\ context_db' = (CASE table = "identities" -> store_identity(context_db, id, data)
                        [] table = "goals" -> store_goal(context_db, id, data)
                        [] table = "tasks" -> store_task(context_db, id, data))
    /\ last_call' = [op |-> "store", table |-> table, id |-> id, data |-> data,
                     raised |-> "", value |-> NoBlob]
    /\ just_returned' = NoSlot
    /\ UNCHANGED <<ontologyVars, agentVars, servers, sessions, active_servers,
                   exit_stack, next_inst, dead, update_queue>>

GetCall(table, id) ==
    /\ LET r == CASE table = "identities" -> get_identity(context_db, id)
                   [] table = "goals" -> get_goal(context_db, id)
                   [] table = "tasks" -> get_task(context_db, id)
       IN  last_call' = [op |-> "get", table |-> table, id |-> id, data |-> NoBlob,
                         raised |-> r.raised, value |-> r.value]
    /\ just_returned' = NoSlot
    /\ UNCHANGED <<ontologyVars, agentVars, clientVars>>

StoreNext ==
    \/ \E t \in Tables, i \in DbIds, d \in Blobs : StoreCall(t, i, d)
    \/ \E t \in Tables, i \in DbIds : GetCall(t, i)

StoreSpec == Init /\ [][StoreNext]_vars

\* --------------------------------- connect() calls running concurrently
\* connect(server_name) up to its first await: the membership test of line 91
\* and the config lookup; the call ends here when the name has a session or
\* no config.
ConnectBegins(e, name) ==
    /\ exec[e].pc = "idle"
    /\ exec' = IF sessions[name] # 0 \/ get_server_raises(servers, name)
               THEN exec
               ELSE [exec EXCEPT ![e] = [IdleSlot EXCEPT !.pc = "launching",
                                                          !.server = name]]
    /\ last_call' = CallRecord("connect", name, sessions[name] # 0, "",
                               IF sessions[name] = 0 /\ get_server_raises(servers, name)
                               THEN "unknown_server" ELSE "", 0, "")
    /\ just_returned' = NoSlot
    /\ UNCHANGED <<ontologyVars, calls, is_running, clientVars>>

\* The await of lines 102-104 ends: stdio_client launched the subprocess.
ConnectLaunched(e) ==
    /\ exec[e].pc = "launching"
    /\ next_inst <= MaxConnects
    /\ exit_stack' = Append(exit_stack, StdioCtx(exec[e].server, next_inst))
    /\ next_inst' = next_inst + 1
    /\ exec' = [exec EXCEPT ![e].pc = "initializing", ![e].inst = next_inst]
    /\ just_returned' = NoSlot
    /\ UNCHANGED <<ontologyVars, calls, is_running, servers, sessions, active_servers,
                   dead, context_db, update_queue, last_call>>

\* The awaits of lines 106-110 end (session entered and initialized) and the
\* session is registered, lines 112-113.
ConnectInitialized(e) ==
    /\ exec[e].pc = "initializing"
    /\ LET c2 == [Client EXCEPT
                    !.exit_stack = Append(@, SessionCtx(exec[e].server, exec[e].inst))]
       IN  SetClient(connect_register(c2, exec[e].server, exec[e].inst))
    /\ exec' = [exec EXCEPT ![e] = IdleSlot]
    /\ just_returned' = e
    /\ UNCHANGED <<ontologyVars, calls, is_running, dead, last_call>>

ConnNext ==
    \/ \E e \in Slots, n \in CallNames : ConnectBegins(e, n)
    \/ \E e \in Slots : ConnectLaunched(e)
    \/ \E e \in Slots : ConnectInitialized(e)

ConnSpec == Init /\ [][ConnNext]_vars

\* ------------------------------- UpdateQueue used by several worker threads
\* Most QueueItems ever created.
MaxItems == 2

QueueCall(op, item, value) == [op |-> op, item |-> item, value |-> value]

\* A producer calls add_documents.  (The method takes no lock; its puts are
\* atomic one by one, which calls with a single document cover.)  QueueNext
\* adds with priority 9, so that a retried item reaches the cap of 10.
AddDocuments(documents, priority) ==
    /\ Len(update_queue.items) + Len(documents) <= MaxItems
    /\ LET r == add_documents(update_queue, documents, priority) IN
       /\ update_queue' = r.uq
       /\ last_call' = QueueCall("add_documents", 0, r.value)
    /\ just_returned' = NoSlot
    /\ UNCHANGED <<ontologyVars, agentVars, servers, sessions, active_servers,
                   exit_stack, next_inst, dead, context_db>>

\* Worker e, holding nothing, calls get_batch and keeps the batch.
GetBatch(e, batch_size, prefer) ==
    /\ exec[e].batch = <<>>
    /\ LET r == get_batch(update_queue, batch_size, prefer) IN
       /\ update_queue' = r.uq
       /\ exec' = [exec EXCEPT ![e].batch = r.value]
       /\ last_call' = QueueCall("get_batch", 0, Len(r.value))
    /\ just_returned' = NoSlot
    /\ UNCHANGED <<ontologyVars, calls, is_running, servers, sessions, active_servers,
                   exit_stack, next_inst, dead, context_db>>

\* Worker e reports the next item of its batch as processed.
MarkCompleted(e) ==
    /\ exec[e].batch # <<>>
    /\ update_queue' = mark_completed(update_queue, Head(exec[e].batch))
    /\ exec' = [exec EXCEPT ![e].batch = Tail(@)]
    /\ last_call' = QueueCall("mark_completed", Head(exec[e].batch), FALSE)
    /\ just_returned' = NoSlot
    /\ UNCHANGED <<ontologyVars, calls, is_running, servers, sessions, active_servers,
                   exit_stack, next_inst, dead, context_db>>

\* Worker e reports the next item of its batch as failed.
MarkFailed(e) ==
    /\ exec[e].batch # <<>>
    /\ LET r == mark_failed(update_queue, Head(exec[e].batch), "error") IN
       /\ update_queue' = r.uq
       /\ last_call' = QueueCall("mark_failed", Head(exec[e].batch), r.value)
    /\ exec' = [exec EXCEPT ![e].batch = Tail(@)]
    /\ just_returned' = NoSlot
    /\ UNCHANGED <<ontologyVars, calls, is_running, servers, sessions, active_servers,
                   exit_stack, next_inst, dead, context_db>>

\* Any thread calls is_empty().
IsEmpty ==
    /\ last_call' = QueueCall("is_empty", 0, is_empty(update_queue))
    /\ just_returned' = NoSlot
    /\ UNCHANGED <<ontologyVars, agentVars, clientVars>>

QueueInit ==
    /\ goals = [g \in Goals |-> NewGoal]
    /\ tasks = <<>>
    /\ next_task_id = 1
    /\ current_goals = <<>>
    /\ completed_goals = <<>>
    /\ active_tasks = <<>>
    /\ completed_tasks = <<>>
    /\ exec = [e \in Slots |-> IdleSlot]
    /\ calls = 0
    /\ is_running = FALSE
    /\ servers = BuiltinServers
    /\ sessions = [n \in ServerNames |-> 0]
    /\ active_servers = {}
    /\ exit_stack = <<>>
    /\ next_inst = 1
    /\ dead = {}
    /\ context_db = EmptyDB
    /\ update_queue \in {NewUpdateQueue(m) : m \in 0..MaxRetries}
    /\ last_call = NoCall
    /\ just_returned = NoSlot

QueueNext ==
    \/ \E n \in 1..2 : \E docs \in [1..n -> Paths] : AddDocuments(docs, 9)
    \/ \E e \in Slots, n \in 1..2, pr \in {"first", "last"} : GetBatch(e, n, pr)
    \/ \E e \in Slots : MarkCompleted(e)
    \/ \E e \in Slots : MarkFailed(e)
    \/ IsEmpty

QueueSpec == QueueInit /\ [][QueueNext]_vars

\* ======================================================== properties
Terminal == {"completed", "failed"}
InActiveView(g) == g \in Range(get_active_goals(World))
Admitted(g) == g \in Range(current_goals) \cup Range(completed_goals)
AllSucceeded(x) ==
    /\ Len(x.results) = Len(x.task_ids)
    /\ \A i \in DOMAIN x.results : x.results[i].success

\* C1: when execute_goal returns for an admitted goal, the goal's status is
\* completed or failed on every path and the goal is not in the active-goals
\* view; and at all times an admitted goal is absent from the active-goals
\* view exactly when its status is completed or failed.
C1_TerminalOnReturn ==
    /\ \A e \in Slots :
         (just_returned = e /\ exec[e].ret.error.kind # "feasibility")
           => /\ goals[exec[e].goal].status \in Terminal
              /\ ~ InActiveView(exec[e].goal)
    /\ \A g \in Goals :
         Admitted(g) => (~ InActiveView(g) <=> goals[g].status \in Terminal)

\* C1 witness: a call returned after the decomposition produced no task.
C1_Witness ==
    \E e \in Slots :
        /\ just_returned = e
        /\ exec[e].decomposed
        /\ exec[e].task_ids = <<>>
        /\ goals[exec[e].goal].status = "completed"

\* C2: once a task's TaskResult is a failure it is the last result of the call,
\* the call has returned success = False with exactly the results of tasks
\* 1..k in order and an error naming task k, no later task was admitted or
\* started, and at the moment of return the goal's status is failed.
C2_FirstFailureAborts ==
    \A e \in Slots :
      LET x == exec[e] IN
      \A k \in DOMAIN x.results :
        ~ x.results[k].success =>
          /\ k = Len(x.results)
          /\ x.pc = "returned"
          /\ ~ x.ret.success
          /\ ~ x.ret.result_is_none
          /\ x.ret.result = x.results
          /\ \A i \in 1..k : x.results[i].task_id = x.task_ids[i]
          /\ \A i \in 1..(k - 1) : x.results[i].success
          /\ x.ret.error.kind = "task_failed"
          /\ x.ret.error.task_id = x.task_ids[k]
          /\ \A j \in (k + 1)..Len(x.task_ids) :
               /\ tasks[x.task_ids[j]].status = "pending"
               /\ tasks[x.task_ids[j]].attempts = 0
               /\ x.task_ids[j] \notin Range(active_tasks) \cup Range(completed_tasks)
          /\ just_returned = e => goals[x.goal].status = "failed"

\* C2 witness: a call just returned because its first task of two failed.
C2_Witness ==
    \E e \in Slots :
        /\ just_returned = e
        /\ Len(exec[e].task_ids) = 2
        /\ Len(exec[e].results) = 1
        /\ ~ exec[e].results[1].success

\* C3: when execute_goal returns after the decomposition produced tasks and all
\* of them succeeded, the goal is completed with completed_at set and progress
\* 1.0, it is out of the active-goals view and held in completed_goals, and
\* the result is success = True with one successful TaskResult per task in
\* task order.
C3_AllTasksSucceed ==
    \A e \in Slots :
      LET x == exec[e] IN
      (just_returned = e /\ x.decomposed /\ AllSucceeded(x)) =>
          /\ goals[x.goal].status = "completed"
          /\ goals[x.goal].completed_at # 0
          /\ goals[x.goal].progress = 100
          /\ ~ InActiveView(x.goal)
          /\ x.goal \in Range(completed_goals)
          /\ x.ret.success
          /\ ~ x.ret.raised
          /\ ~ x.ret.result_is_none
          /\ Len(x.ret.result) = Len(x.task_ids)
          /\ \A i \in DOMAIN x.ret.result :
               /\ x.ret.result[i].task_id = x.task_ids[i]
               /\ x.ret.result[i].success

\* C3 witness: a call with two tasks just returned with both succeeded.
C3_Witness ==
    \E e \in Slots :
        /\ just_returned = e
        /\ Len(exec[e].task_ids) = 2
        /\ AllSucceeded(exec[e])

\* C4: when the decomposition returns no task (error response or empty
\* output), execute_goal returns success = False with an empty result list and
\* the goal's status is still in_progress.
C4_NoTasksLeavesInProgress ==
    \A e \in Slots :
      LET x == exec[e] IN
      (just_returned = e /\ x.decomposed /\ x.task_ids = <<>>) =>
          /\ ~ x.ret.success
          /\ ~ x.ret.result_is_none
          /\ x.ret.result = <<>>
          /\ goals[x.goal].status = "in_progress"

\* C5: execute_goal never ends in an exception: every return carries a
\* GoalResult, and a GoalResult with success = False carries an error.
C5_NoExceptionEscapes ==
    \A e \in Slots :
      exec[e].pc = "returned" =>
          /\ ~ exec[e].ret.raised
          /\ exec[e].ret.goal_id = exec[e].goal
          /\ ~ exec[e].ret.success => exec[e].ret.error.kind # ""

\* C5 witness: a call returned through the outer exception handler.
C5_Witness ==
    \E e \in Slots :
        /\ just_returned = e
        /\ exec[e].ret.error.kind = "exception"

\* A tool invocation made for the task of result tr failed: execute_tool raised
\* (no session, transport error) or the tool's result is flagged isError.
ToolInvocationFailed(tr) ==
    /\ Handler(tasks[tr.task_id].action) \in ToolHandlers
    /\ \/ tr.result = "is_error"
       \/ tasks[tr.task_id].result = "is_error"
       \/ tr.error = "tool call failed"

\* C6: a task whose tool invocation failed has a TaskResult with
\* success = False, is not completed, and fails the whole goal.
C6_ToolFailureFailsGoal ==
    \A e \in Slots :
      LET x == exec[e] IN
      \A k \in DOMAIN x.results :
        ToolInvocationFailed(x.results[k]) =>
          /\ ~ x.results[k].success
          /\ tasks[x.results[k].task_id].status # "completed"
          /\ x.pc = "returned"
          /\ ~ x.ret.success
          /\ just_returned = e => goals[x.goal].status = "failed"

\* Steps of connect() after the config lookup that the claim names.
ConnectFailures ==
    {"launch_raises", "session_enter_raises", "initialize_raises", "list_tools_raises"}

\* C7: when a step of connect(name) after the config lookup raises, the error
\* reaches the caller and name is not a key of sessions afterwards.
C7_FailedConnectNotRegistered ==
    (/\ last_call.op = "connect"
     /\ ~ last_call.had_session
     /\ last_call.server \in ConfiguredServers
     /\ last_call.outcome \in ConnectFailures)
      => /\ last_call.raised # ""
         /\ sessions[last_call.server] = 0

\* C8: after cleanup() no server name remains in sessions, every transport is
\* released, and the call did not raise.
C8_CleanupDisconnectsAll ==
    last_call.op = "cleanup"
      => /\ last_call.raised = ""
         /\ SessionKeys(Client) = {}
         /\ OpenInsts(exit_stack) = {}

\* C9: disconnect(name) never raises; without a session for name it changes
\* nothing; otherwise it removes that session, releases its transport, and
\* leaves every other server's session as it was.
C9_DisconnectReleases ==
    [][\A n \in CallNames :
         Disconnect(n) =>
           /\ last_call'.raised = ""
           /\ sessions[n] = 0 => UNCHANGED clientVars
           /\ sessions[n] # 0 =>
                /\ sessions'[n] = 0
                /\ sessions[n] \notin OpenInsts(exit_stack')
                /\ \A m \in ServerNames \ {n} : sessions'[m] = sessions[m]]_vars

\* C10: execute_tool raises not-connected and forwards nothing when the server
\* has no session; otherwise it forwards exactly one call and returns that
\* call's result or raises when that call raised.
C10_ExecuteToolForwards ==
    last_call.op = "execute_tool"
      => /\ ~ last_call.had_session
              => /\ last_call.raised = "not_connected"
                 /\ last_call.forwarded = 0
         /\ last_call.had_session
              => /\ last_call.forwarded = 1
                 /\ last_call.outcome = "raises"
                      => last_call.raised # "" /\ last_call.value = ""
                 /\ last_call.outcome # "raises"
                      => last_call.raised = "" /\ last_call.value = last_call.outcome

\* C10 witness: a forwarded call raised and execute_tool raised in turn.
C10_Witness ==
    /\ last_call.op = "execute_tool"
    /\ last_call.had_session
    /\ last_call.outcome = "raises"
    /\ last_call.raised # ""

\* C11: list_tools does not raise; the tools it returns are exactly the tools
\* of the sessions whose listing succeeded (of the named server only when a
\* name is given), each once, whatever the other sessions' listings did; and
\* without any session the result is empty and no error is raised.
C11_ListToolsPartial ==
    last_call.op = "list_tools" =>
      LET r == last_call.value
          ok == {n \in last_call.outcome : last_call.server \in {"", n}}
          expected == UNION {Range(ServerTools(n)) : n \in ok}
      IN  /\ r.raised = ""
          /\ Range(r.tools) = expected
          /\ Len(r.tools) = Cardinality(expected)
          /\ r.is_none <=> r.tools = <<>>
          /\ ~ last_call.had_session => r.tools = <<>>

\* C11 witness: two sessions were asked, one listing failed, and the result
\* holds the other session's tools.
C11_Witness ==
    /\ last_call.op = "list_tools"
    /\ last_call.server = ""
    /\ Cardinality(SessionKeys(Client)) = 2
    /\ Cardinality(last_call.outcome) = 1
    /\ last_call.value.raised = ""
    /\ last_call.value.tools # <<>>

\* C12: admission is idempotent: add_goal with a goal that is already admitted
\* and add_task with a task that is already admitted leave the ontology's
\* stored goals and tasks as they were (no second entry, record unchanged).
C12_AdmissionIdempotent ==
    /\ \A g \in Goals :
         g \in Range(current_goals) =>
           /\ add_goal(World, g).current_goals = current_goals
           /\ add_goal(World, g).goals = goals
    /\ \A t \in DOMAIN tasks :
         t \in Range(active_tasks) =>
           /\ add_task(World, t).active_tasks = active_tasks
           /\ add_task(World, t).tasks = tasks

\* C13: for every task, can_retry() is true exactly when the task's status is
\* failed and its attempts is below its retry policy's max_retries.
C13_CanRetry ==
    \A i \in DOMAIN tasks :
        can_retry(tasks[i]) <=>
            (tasks[i].status = "failed" /\ tasks[i].attempts < tasks[i].max_retries)

\* C14: for every task, duration is set exactly when started_at and
\* completed_at are both set, and then equals completed_at - started_at.
C14_DurationConsistent ==
    \A i \in DOMAIN tasks :
      LET t == tasks[i] IN
        /\ t.duration # NoDuration <=> (t.started_at # 0 /\ t.completed_at # 0)
        /\ t.duration # NoDuration => t.duration = t.completed_at - t.started_at

\* Python's lower() on the names used here, written out letter by letter.
UpperToLower == ("D" :> "d") @@ ("E" :> "e") @@ ("L" :> "l") @@ ("T" :> "t")
Lowered(s) ==
    [i \in DOMAIN s |-> IF s[i] \in DOMAIN UpperToLower THEN UpperToLower[s[i]] ELSE s[i]]

\* a occurs in b, stated with slices of b.
OccursIn(a, b) == \E i \in 1..(Len(b) + 1) : \E j \in (i - 1)..Len(b) : SubSeq(b, i, j) = a

C16_NoPrefixRejects ==
    last_call.op = "validate_action" =>
      /\ (last_call.constraints = <<NO_DELETE>> /\ last_call.action = DELETE_FILE)
            => last_call.value = FALSE
      /\ (last_call.constraints = <<>> /\ last_call.action = CALCULATE)
            => last_call.value = TRUE

\* C17: when the feasibility score of a goal is below 0.3, execute_goal
\* returns success = False at once and changes nothing: goals, their status
\* and started_at, the ontology's lists and the tasks stay as they were, and
\* no decomposition is requested.
C17_InfeasibleNoEffect ==
    [][\A g \in Goals, f \in FeasibilityScores :
         (f < FeasibilityThreshold /\ ExecuteGoalScored("s1", g, f)) =>
           /\ UNCHANGED ontologyVars
           /\ exec'["s1"].pc = "returned"
           /\ ~ exec'["s1"].ret.success
           /\ ~ exec'["s1"].decomposed
           /\ ~ exec'["s1"].ret.raised]_vars

\* C17 witness: a call for a goal that had completed earlier was turned away
\* by the gate.
C17_Witness ==
    /\ just_returned = "s1"
    /\ exec["s1"].ret.error.kind = "feasibility"
    /\ goals[exec["s1"].goal].status = "completed"
    /\ exec["s1"].goal \notin Range(current_goals)

\* execute_task has been entered for the task: the loop admitted it, or it ran.
Begun(t) == tasks[t].attempts > 0 \/ t \in Range(active_tasks) \cup Range(completed_tasks)

\* C18: within one execute_goal call the tasks are begun in the order of the
\* decomposition, and when a task has begun, execute_task has returned for
\* every earlier task of the call with that task completed or failed.
C18_SequentialInOrder ==
    \A e \in Slots :
      LET x == exec[e] IN
      \A j \in DOMAIN x.task_ids :
        Begun(x.task_ids[j]) =>
          \A i \in 1..(j - 1) :
            /\ x.task_ids[i] < x.task_ids[j]
            /\ Begun(x.task_ids[i])
            /\ Len(x.results) >= i
            /\ x.results[i].task_id = x.task_ids[i]
            /\ tasks[x.task_ids[i]].status \in Terminal

\* C18 witness: the second task of a call is waiting for its tool while the
\* first has completed.
C18_Witness ==
    \E e \in Slots :
        /\ exec[e].pc = "call_tool"
        /\ exec[e].idx = 2
        /\ tasks[exec[e].task_ids[1]].status = "completed"
        /\ tasks[exec[e].task_ids[2]].status = "in_progress"

\* C19: start() on an agent that is not running attempts every preferred
\* server, does not raise and ends with is_running true; a server whose
\* connect failed is absent from sessions and one whose connect succeeded is
\* present.
C19_StartBestEffort ==
    (last_call.op = "start" /\ ~ last_call.was_running) =>
      /\ is_running
      /\ last_call.raised = ""
      /\ \A k \in DOMAIN last_call.preferred :
           LET n == last_call.preferred[k]
               failed == get_server_raises(last_call.registry, n) \/ last_call.outs[k] \in ConnectFailures
           IN  last_call.before[n] = 0 =>
                 /\ failed => sessions[n] = 0
                 /\ ~ failed => sessions[n] # 0

\* C20: get_server(name) returns the registered config exactly for registered
\* names and raises for any other name, changing nothing; add_server(config)
\* raises when config.name is registered and then leaves the registry as it
\* was, and otherwise registers config under its name; the built-in entries
\* are never replaced.
C20_RegistryConsistent ==
    /\ \A n \in ConfiguredServers : servers[n] = BuiltinServers[n]
    /\ last_call.op = "get_server" =>
         /\ last_call.raised = "" <=> last_call.before[last_call.name] # NoConfig
         /\ last_call.raised = "" => last_call.value = last_call.before[last_call.name]
         /\ servers = last_call.before
    /\ last_call.op = "add_server" =>
         LET n == last_call.config.name IN
         /\ last_call.before[n] # NoConfig =>
               /\ last_call.raised # ""
               /\ servers = last_call.before
         /\ last_call.before[n] = NoConfig =>
               /\ last_call.raised = ""
               /\ servers[n] = last_call.config
               /\ \A m \in RegistryNames \ {n} : servers[m] = last_call.before[m]

\* C20 witness: add_server was refused for a name added earlier, with a config
\* that differs from the registered one.
C20_Witness ==
    /\ last_call.op = "add_server"
    /\ last_call.raised # ""
    /\ last_call.config.name = "test-server"
    /\ servers["test-server"] # last_call.config

\* C21: when the constraint check rejects a task's action, execute_task
\* returns a failed TaskResult, invokes no handler, and leaves every task
\* (status, attempts, started_at, result, tool_used) and the ontology's
\* completed tasks as they were; the only change to the active tasks is the
\* admission the loop made before the call.
C21_RejectedTaskUntouched ==
    [][LET x == exec["s1"] IN
       (/\ x.pc = "task"
        /\ ~ validate_action(operating_constraints, tasks[x.task_ids[x.idx]].action)
        /\ RunTask("s1")) =>
          LET tid == x.task_ids[x.idx]
              tr == exec'["s1"].results[Len(exec'["s1"].results)]
          IN  /\ tasks' = tasks
              /\ completed_tasks' = completed_tasks
              /\ active_tasks' = Append(active_tasks, tid)
              /\ tr.task_id = tid
              /\ ~ tr.success
              /\ tr.result = ""
              /\ tr.error # ""
              /\ exec'["s1"].handler = ""
              /\ exec'["s1"].pc = "returned"]_vars

\* C21 witness: the second task of a call was rejected and is still pending
\* with no attempt made.
C21_Witness ==
    /\ just_returned = "s1"
    /\ Len(exec["s1"].results) = 2
    /\ exec["s1"].results[2].error = "Action not allowed by agent constraints"
    /\ tasks[exec["s1"].task_ids[2]].status = "pending"
    /\ tasks[exec["s1"].task_ids[2]].attempts = 0

\* C22: when the handler of a task raised, execute_task returned (it did not
\* raise) a TaskResult with success = False carrying the error text, the
\* task's status is failed, and an error message was appended to the task's
\* error messages.
C22_HandlerRaiseRecorded ==
    LET x == exec["s1"] IN
    \A k \in DOMAIN x.results :
      LET tr == x.results[k] IN
      (~ tr.success /\ tasks[tr.task_id].attempts > 0) =>
          /\ tr.error # ""
          /\ tasks[tr.task_id].status = "failed"
          /\ tasks[tr.task_id].error_messages # <<>>

\* C23: when the handler of a task returned normally, the task is completed
\* with confidence 0.9, quality score 0.8 and the handler's value as result,
\* it is in the ontology's completed tasks and no longer in its active tasks,
\* and the TaskResult has success = True and the tool_used recorded on the
\* task.
C23_HandlerReturnCompletes ==
    LET x == exec["s1"] IN
    \A k \in DOMAIN x.results :
      LET tr == x.results[k]
          t == tasks[tr.task_id]
      IN  tr.success =>
            /\ t.status = "completed"
            /\ t.confidence = 90
            /\ t.quality_score = 80
            /\ t.result = tr.result
            /\ tr.task_id \in Range(completed_tasks)
            /\ tr.task_id \notin Range(active_tasks)
            /\ tr.tool_used = t.tool_used
            /\ Handler(t.action) \in ToolHandlers
                  => tr.tool_used = HandlerToolUsed(Handler(t.action))

\* C23 witness: a call returned whose first task called the math server and
\* completed.
C23_Witness ==
    /\ just_returned = "s1"
    /\ Len(exec["s1"].results) = 2
    /\ exec["s1"].results[1].success
    /\ exec["s1"].results[1].tool_used = "local-math/sqrt"

\* C24: execute_task never retries.  A task's attempts only ever go from 0 to
\* 1, and only for an action that passes the constraint check (a rejected
\* task keeps 0 attempts); a task that has failed is never touched again by
\* execute_task or execute_goal, also while can_retry() is true for it.
C24_NoRetry ==
    [][/\ \A t \in DOMAIN tasks :
            /\ tasks'[t].attempts \in {tasks[t].attempts, tasks[t].attempts + 1}
            /\ tasks'[t].attempts # tasks[t].attempts =>
                   /\ tasks[t].attempts = 0
                   /\ validate_action(operating_constraints, tasks[t].action)
            /\ tasks[t].status = "failed" => tasks'[t] = tasks[t]
       /\ \A t \in DOMAIN tasks' \ DOMAIN tasks : tasks'[t].attempts = 0
       /\ LET x == exec["s1"] IN
          (x.pc = "task" /\ RunTask("s1")
           /\ validate_action(operating_constraints, tasks[x.task_ids[x.idx]].action)) =>
              tasks'[x.task_ids[x.idx]].attempts = tasks[x.task_ids[x.idx]].attempts + 1
      ]_vars

\* C24 witness: the first task failed after one attempt and could be retried,
\* its goal was executed again, and a later task of that goal completed.
C24_Witness ==
    /\ just_returned = "s1"
    /\ Len(tasks) >= 3
    /\ tasks[1].status = "failed"
    /\ tasks[1].attempts = 1
    /\ can_retry(tasks[1])
    /\ \E t \in DOMAIN tasks :
         /\ t > 1
         /\ tasks[t].parent_goal = tasks[1].parent_goal
         /\ tasks[t].status = "completed"

\* C25: an action that is not a key of the action table resolves to the
\* generic handler, which returns a value; when such an action passes the
\* constraint check, execute_task returns success = True with the generic
\* handler's descriptive result and no error, and the task is completed.
C25_UnmappedNeverFails ==
    [][/\ \A a \in (ActionInputs \cup DecomposerActions) \ action_mappings :
            /\ Handler(a) = "_generic_tool_execution"
            /\ pure_handler(Handler(a)).raised = ""
       /\ LET x == exec["s1"] IN
          (/\ x.pc = "task"
           /\ tasks[x.task_ids[x.idx]].action \notin action_mappings
           /\ validate_action(operating_constraints, tasks[x.task_ids[x.idx]].action)
           /\ RunTask("s1")) =>
              LET tid == x.task_ids[x.idx]
                  rs == IF exec'["s1"].pc = "returned"
                        THEN exec'["s1"].ret.result ELSE exec'["s1"].results
                  tr == rs[Len(rs)]
              IN  /\ tr.task_id = tid
                  /\ tr.success
                  /\ tr.result = "Generic execution completed"
                  /\ tr.error = ""
                  /\ tasks'[tid].status = "completed"
                  /\ tasks'[tid].result = tr.result
                  /\ tid \in Range(completed_tasks')
      ]_vars

\* C25 witness: a call returned whose second task had an unmapped action and
\* completed through the generic handler.
C25_Witness ==
    /\ just_returned = "s1"
    /\ Len(exec["s1"].results) = 2
    /\ tasks[exec["s1"].task_ids[2]].action = WRITE_REPORT
    /\ tasks[exec["s1"].task_ids[2]].status = "completed"
    /\ exec["s1"].results[2].success
    /\ exec["s1"].results[2].result = "Generic execution completed"

\* C26: a goal's status only moves forward along pending -> in_progress ->
\* {completed, failed}: a completed or failed goal keeps its status, and no
\* goal goes back to pending, or to in_progress from a terminal status.
C26_StatusMonotonic ==
    [][\A g \in Goals :
         /\ goals[g].status \in Terminal => goals'[g].status = goals[g].status
         /\ goals[g].status = "in_progress" => goals'[g].status # "pending"
      ]_vars

\* C27: update_progress(p) stores p clamped to [0, 1]; when the stored
\* progress reaches the goal's completion threshold the status is completed
\* and completed_at is set; when it is below the threshold the status is the
\* one the goal had before the call.
C27_UpdateProgress ==
    last_call.op = "update_progress" =>
        LET r == goals[last_call.goal]
            p == last_call.progress
        IN  /\ r.progress >= 0 /\ r.progress <= 100
            /\ (p >= 0 /\ p <= 100) => r.progress = p
            /\ p < 0 => r.progress = 0
            /\ p > 100 => r.progress = 100
            /\ r.progress >= r.completion_threshold =>
                    r.status = "completed" /\ r.completed_at # 0
            /\ r.progress < r.completion_threshold =>
                    /\ r.status = last_call.before.status
                    /\ r.completed_at = last_call.before.completed_at

\* C27 witness: a goal in progress was reported at more than 1.0; it holds 1.0
\* and is completed.
C27_Witness ==
    /\ last_call.op = "update_progress"
    /\ last_call.progress = 130
    /\ last_call.before.status = "in_progress"
    /\ last_call.before.completion_threshold = 100
    /\ goals[last_call.goal].progress = 100
    /\ goals[last_call.goal].status = "completed"
    /\ goals[last_call.goal].completed_at # 0

\* C28: goals executed concurrently are independent.  The GoalResult of each
\* call holds exactly the results of the tasks that call created for its own
\* goal, in order; it is a failure exactly when one of those tasks failed
\* (the last one it ran), and a success exactly when all of them ran and
\* succeeded; the goal's status on return is the one that outcome gives.
C28_ConcurrentGoalsIndependent ==
    \A e \in Slots :
      LET x == exec[e]
          rs == x.ret.result
      IN  (x.pc = "returned" /\ ~ x.ret.result_is_none) =>
            /\ Len(rs) <= Len(x.task_ids)
            /\ \A k \in DOMAIN rs :
                  /\ rs[k].task_id = x.task_ids[k]
                  /\ tasks[rs[k].task_id].parent_goal = x.goal
                  /\ k < Len(rs) => rs[k].success
                  /\ rs[k].success <=> tasks[rs[k].task_id].status = "completed"
            /\ x.ret.success <=>
                  (Len(rs) = Len(x.task_ids) /\ \A k \in DOMAIN rs : rs[k].success)
            /\ just_returned = e =>
                  goals[x.goal].status = IF x.ret.success THEN "completed" ELSE "failed"

\* C28 witness: two calls for different goals overlapped; the one that began
\* later failed on its task and returned first, the other then completed.
C28_Witness ==
    /\ just_returned = "s1"
    /\ exec["s2"].pc = "returned"
    /\ exec["s1"].goal # exec["s2"].goal
    /\ exec["s1"].ret.success
    /\ Len(exec["s1"].ret.result) = 2
    /\ ~ exec["s2"].ret.success
    /\ Len(exec["s2"].ret.result) = 1
    /\ exec["s2"].task_ids[1] > exec["s1"].task_ids[1]
    /\ tasks[exec["s2"].task_ids[1]].status = "failed"
    /\ goals[exec["s1"].goal].status = "completed"
    /\ goals[exec["s2"].goal].status = "failed"

\* C29: at most one tool invocation is in flight on a session at any time.
C29_OneCallPerSession ==
    \A e1, e2 \in Slots :
      (e1 # e2 /\ exec[e1].pc = "call_tool" /\ exec[e2].pc = "call_tool") =>
          exec[e1].inst # exec[e2].inst

\* C30: the ontology store round-trips.  A store leaves the stored text of
\* the blob under its id; a get for an id that has a row returns the value of
\* the latest text stored under it, and a get for an id without a row
\* reports not-found (None) without raising.
C30_StoreRoundTrip ==
    /\ last_call.op = "store" =>
          context_db[last_call.table][last_call.id] = json_dumps(last_call.data)
    /\ last_call.op = "get" =>
          LET row == context_db[last_call.table][last_call.id] IN
          IF row = NoRow
          THEN last_call.raised = "" /\ last_call.value = NoBlob
          ELSE json_loads(row).type = "dict" =>
                 last_call.raised = "" /\ last_call.value = json_loads(row)

\* C32: a task is admitted to the ontology immediately before it is executed
\* and not earlier.  Of the tasks of a call, only those whose execute_task has
\* begun are in the ontology's active or completed tasks; when a task has
\* failed, the tasks after it are in neither.
C32_AdmittedJustBeforeExecution ==
    LET x == exec["s1"]
        begun == Len(x.results) + (IF x.pc \in {"call_tool", "list_tools"} THEN 1 ELSE 0)
    IN  \A k \in DOMAIN x.task_ids :
          k > begun =>
            /\ x.task_ids[k] \notin Range(active_tasks)
            /\ x.task_ids[k] \notin Range(completed_tasks)

\* C32 witness: the first of two tasks failed and the call returned; the
\* second task is in no task collection of the ontology.
C32_Witness ==
    /\ just_returned = "s1"
    /\ Len(exec["s1"].task_ids) = 2
    /\ Len(exec["s1"].results) = 1
    /\ ~ exec["s1"].results[1].success
    /\ tasks[exec["s1"].task_ids[1]].status = "failed"
    /\ exec["s1"].task_ids[1] \in Range(active_tasks)
    /\ exec["s1"].task_ids[2] \notin Range(active_tasks) \cup Range(completed_tasks)

\* C33: when execute_goal returns, every task it admitted to the ontology is
\* completed or failed, so none of them is in the pending-tasks view.
C33_AdmittedTasksTerminal ==
    just_returned = "s1" =>
        LET x == exec["s1"] IN
        \A k \in DOMAIN x.results :
          /\ tasks[x.task_ids[k]].status \in Terminal
          /\ x.task_ids[k] \notin Range(get_pending_tasks(World))

\* C34: no goal is in both current_goals and completed_goals, and no goal
\* occurs twice in either list.
C34_GoalInOneContainerOnce ==
    /\ Range(current_goals) \cap Range(completed_goals) = {}
    /\ \A i, j \in DOMAIN current_goals : current_goals[i] = current_goals[j] => i = j
    /\ \A i, j \in DOMAIN completed_goals :
          completed_goals[i] = completed_goals[j] => i = j

\* C35: a server name is a key of sessions exactly when its transport is
\* open: every session's transport is open, every open transport belongs to
\* a session, and a tool call is only forwarded to a session whose transport
\* is open.
C35_SessionIffTransportOpen ==
    /\ \A n \in ServerNames :
          sessions[n] # 0 => sessions[n] \in OpenInsts(exit_stack)
    /\ \A i \in OpenInsts(exit_stack) : \E n \in ServerNames : sessions[n] = i
    /\ (last_call.op = "execute_tool" /\ last_call.forwarded > 0) =>
          sessions[last_call.server] \in OpenInsts(exit_stack)

\* C37: sessions and active_servers have the same keys, and list_tools never
\* fails to find the config of a session it iterates.
C37_SameKeySets ==
    /\ active_servers = SessionKeys(Client)
    /\ last_call.op = "list_tools" => last_call.raised # "KeyError"

\* C37 witness: one server was disconnected while the other stays connected,
\* after a connect that failed once its session had been registered.
C37_Witness ==
    /\ last_call.op = "disconnect"
    /\ last_call.had_session
    /\ sessions[last_call.server] = 0
    /\ last_call.server \notin active_servers
    /\ \E n \in ServerNames : sessions[n] # 0 /\ n \in active_servers
    /\ Len(exit_stack) >= 4

\* C36: concurrent connect calls for the same absent server launch at most
\* one subprocess.  (No disconnect or cleanup happens in ConnSpec, so every
\* launched subprocess is still on the exit stack.)
C36_OneLaunchPerServer ==
    \A i, j \in DOMAIN exit_stack :
      (/\ exit_stack[i].kind = "stdio" /\ exit_stack[j].kind = "stdio"
       /\ exit_stack[i].server = exit_stack[j].server) => i = j

\* What mark_failed did, seen right after the call: it returned true exactly
\* when the item's retry count is now below max_retries, the item is then on
\* the queue, and otherwise in the failed list and not on the queue; no item
\* of the failed list is queued, processing or held by a worker.
MarkFailedOutcome ==
    LET q == update_queue IN
    /\ last_call.op = "mark_failed" =>
          LET it == q.items[last_call.item] IN
          /\ last_call.value <=> (it.retry_count < q.max_retries)
          /\ last_call.value =>
                last_call.item \in Range(q.queue) /\ last_call.item \notin Range(q.failed)
          /\ ~ last_call.value =>
                last_call.item \in Range(q.failed) /\ last_call.item \notin Range(q.queue)
    /\ \A i \in Range(q.failed) :
          /\ i \notin Range(q.queue)
          /\ \A p \in Paths : q.processing[p] # i
          /\ \A e \in Slots : i \notin Range(exec[e].batch)
          /\ q.items[i].retry_count >= q.max_retries

\* C31 as stated: mark_failed re-queues exactly while the retry count is
\* below max_retries, and so get_batch hands an item out at most max_retries
\* times.
C31_HandedAtMostMaxRetries ==
    /\ MarkFailedOutcome
    /\ \A i \in DOMAIN update_queue.items :
          update_queue.items[i].handed <= update_queue.max_retries

\* C31, amended: mark_failed re-queues exactly while the retry count is below
\* max_retries, and get_batch hands an item out at most max_retries times,
\* or once when max_retries is less than 1.
C31_MarkFailedBounded ==
    /\ MarkFailedOutcome
    /\ \A i \in DOMAIN update_queue.items :
          update_queue.items[i].handed <= Max(1, update_queue.max_retries)

\* C31 witness: an item was handed out three times on a queue with
\* max_retries = 3; its third failure returned false and put it in the failed
\* list.
C31_Witness ==
    /\ last_call.op = "mark_failed"
    /\ ~ last_call.value
    /\ update_queue.max_retries = 3
    /\ update_queue.items[last_call.item].handed = 3
    /\ update_queue.items[last_call.item].retry_count = 3
    /\ last_call.item \in Range(update_queue.failed)

\* C38: the queue conserves items under concurrent use.  Every item ever
\* added is in exactly one of the queue, the processing map, the completed
\* list and the failed list, and there once; no item is held by two workers;
\* and is_empty() returned true only with nothing queued and no worker
\* holding an item.
C38_ItemsConserved ==
    LET q == update_queue
        Places(i) ==
            Cardinality({k \in DOMAIN q.queue : q.queue[k] = i})
            + Cardinality({p \in Paths : q.processing[p] = i})
            + Cardinality({k \in DOMAIN q.completed : q.completed[k] = i})
            + Cardinality({k \in DOMAIN q.failed : q.failed[k] = i})
    IN  /\ \A i \in DOMAIN q.items : Places(i) = 1
        /\ \A e1, e2 \in Slots :
              e1 # e2 => Range(exec[e1].batch) \cap Range(exec[e2].batch) = {}
        /\ (last_call.op = "is_empty" /\ last_call.value) =>
              /\ q.queue = <<>>
              /\ \A e \in Slots : exec[e].batch = <<>>

====
